---- MODULE Spec2Model ----
(***************************************************************************)
(* Agent orchestration pipeline of adex:                                   *)
(*   codex/agents/src/lib.rs                 AgentSuite (driver, mapper)   *)
(*   codex/backend/orchestrator/src/lib.rs   AgentOrchestrator (service)   *)
(*   codex/backend/orchestrator/src/main.rs  router and timeout layer      *)
(*   codex/integrations/github/src/lib.rs    GitHubApp (create_commit)     *)
(* JSON payloads are modelled as tagged records, typed requests by the     *)
(* serde shape of their struct, f32 values by mantissa and exponent.       *)
(***************************************************************************)
EXTENDS Integers, Sequences, FiniteSets, TLC

VARIABLES
    pc,               \* position of the run: idle, loop, await, unlock, done
    entry,            \* "suite" (AgentSuite::orchestrate called directly) or "service"
    svc_request,      \* OrchestrationRequest given to process_request
    resolved_each,    \* result of the filter_map closure for each supplied name
    request,          \* AgentOrchestrationRequest given to orchestrate
    agent_sequence,   \* orchestrate: the sequence iterated by the for loop
    cursor,           \* orchestrate: how many elements the for loop has taken
    previous_output,  \* orchestrate: Option<Value>
    executions,       \* orchestrate: Vec<AgentExecution>
    warnings,         \* orchestrate: Vec<String>
    pending_input,    \* execute_agent: the input held across the agent's await
    calls,            \* arguments of every execute_agent call so far
    invoked,          \* the agents whose method was awaited so far, in order
    returns,          \* for every execute_agent call that returned: TRUE for Ok, FALSE for Err
    suite_result,     \* Result returned by orchestrate
    svc_result,       \* Result returned by process_request
    active_sessions,  \* OrchestratorState
    total_requests,   \* OrchestratorState
    http_response,    \* what the HTTP caller of /api/v1/orchestrate has received
    runs,             \* concurrent process_request calls: the locals of each
    lock,             \* owner of the OrchestratorState mutex, 0 when free
    mapped,           \* prepare_agent_input called on its own: its arguments and result
    github,           \* GitHubApp: the locals of one call and the HTTP calls it has issued
    stream            \* MockStreamCompletion: content, position and what next has returned

vars == <<pc, entry, svc_request, resolved_each, request, agent_sequence, cursor,
          previous_output, executions, warnings, pending_input, calls,
          invoked, returns, suite_result, svc_result, active_sessions, total_requests,
          http_response, runs, lock, mapped, github, stream>>

\* the state outside a single library or service call
env_vars == <<http_response, runs, lock, mapped, github, stream>>

-----------------------------------------------------------------------------
(* Bounds *)

MaxSeq == 3          \* longest agent sequence a request carries
MaxNameLists == 2    \* longest name list tried in the resolution-only specification
MaxRuns == 2         \* process_request calls in progress at the same time
MaxChanges == 2      \* most file changes a CreateCommitRequest carries
MaxChars == 11       \* most characters of a streamed content
MaxIdleCalls == 2    \* calls of next made after the stream has ended

\* let chunk_size = 10
chunk_size == 10

-----------------------------------------------------------------------------
(* Option and serde_json::Value *)

None == [some |-> FALSE]
Some(v) == [some |-> TRUE, val |-> v]

JNull == [t |-> "null"]
JStr(s) == [t |-> "string", s |-> s]
JNum == [t |-> "number"]
JArr(es) == [t |-> "array", elems |-> es]
JObj(f) == [t |-> "object", fields |-> f]

\* Value::get(key): Some(member) of an object that has the key, else None
Get(v, key) ==
    IF v.t = "object" /\ key \in DOMAIN v.fields THEN Some(v.fields[key]) ELSE None

\* Serialize for Option<T>: None is null
OptToJson(o) == IF o.some THEN o.val ELSE JNull

\* Serialize for HashMap<String, String>
MapToJson(m) == JObj([k \in DOMAIN m |-> JStr(m[k])])

\* request.options.as_ref().and_then(|o| o.get(key)), serialized
OptionEntry(req, key) ==
    IF req.options.some /\ key \in DOMAIN req.options.val
    THEN JStr(req.options.val[key])
    ELSE JNull

ContextJson(req) == IF req.context.some THEN MapToJson(req.context.val) ELSE JNull

-----------------------------------------------------------------------------
(* AgentType *)

AgentTypes == {"Spec", "Code", "TestGenerator", "Reviewer", "Debug"}

DefaultSequence == <<"Spec", "Code", "Reviewer", "TestGenerator">>

-----------------------------------------------------------------------------
(* The responses the agents produce, as serde_json::to_value renders them *)

SpecResponseJson ==
    JObj([requirements |-> JArr(<<JObj([id |-> JStr("REQ-001"),
                                        title |-> JStr("title"),
                                        description |-> JStr("description"),
                                        priority |-> JStr("High"),
                                        category |-> JStr("Functional"),
                                        acceptance_criteria |-> JArr(<<JStr("criterion")>>)])>>),
          test_cases |-> JArr(<<JObj([id |-> JStr("TC-REQ-001-001"),
                                      requirement_id |-> JStr("REQ-001")])>>),
          user_stories |-> JArr(<<JObj([id |-> JStr("US-001")])>>),
          acceptance_criteria |-> JObj([r |-> JArr(<<JStr("criterion")>>)]),
          metadata |-> JObj([estimated_effort |-> JStr("2-3 weeks"),
                             complexity |-> JStr("Simple"),
                             dependencies |-> JArr(<<JStr("Authentication service")>>),
                             risk_level |-> JStr("Low")])])

CodeStreamJson ==
    JObj([changes |-> JArr(<<JObj([file_path |-> JStr("src/controllers/auth.js"),
                                   old_content |-> JStr("old"),
                                   new_content |-> JStr("new"),
                                   change_type |-> JStr("Modify"),
                                   explanation |-> JStr("explanation"),
                                   confidence |-> JNum])>>),
          metadata |-> JObj([language |-> JStr("javascript"),
                             framework |-> JStr("express"),
                             patterns_used |-> JArr(<<JStr("MVC")>>),
                             complexity_score |-> JNum]),
          dependencies |-> JArr(<<>>),
          warnings |-> JArr(<<>>)])

TestSuiteJson ==
    JObj([tests |-> JArr(<<JObj([file_path |-> JStr("test"), content |-> JStr("content")])>>),
          setup_code |-> JStr("setup"),
          teardown_code |-> JStr("teardown"),
          metadata |-> JObj([total_tests |-> JNum]),
          recommendations |-> JArr(<<JStr("recommendation")>>)])

ReviewReportJson ==
    JObj([findings |-> JArr(<<JObj([id |-> JStr("finding")])>>),
          annotated_diffs |-> JArr(<<JObj([file_path |-> JStr("src/controllers/auth.js")])>>),
          summary |-> JObj([total_findings |-> JNum]),
          recommendations |-> JArr(<<JStr("recommendation")>>),
          overall_approval |-> JStr("Approved")])

DebugReportJson ==
    JObj([analysis |-> JObj([confidence |-> JNum]),
          patch_suggestions |-> JArr(<<>>),
          monitoring_recommendations |-> JArr(<<JStr("recommendation")>>),
          next_steps |-> JArr(<<JStr("step")>>)])

\* the fields of AgentSuite, one agent each
Agents == {"spec_agent", "code_agent", "test_generator", "reviewer", "debug_agent"}

\* AgentFor with the reviewer and the test generator taken for each other
AgentFor_ReviewerAndTestsSwapped(agent_type) ==
    CASE agent_type = "Spec" -> "spec_agent"
      [] agent_type = "Code" -> "code_agent"
      [] agent_type = "TestGenerator" -> "reviewer"
      [] agent_type = "Reviewer" -> "test_generator"
      [] agent_type = "Debug" -> "debug_agent"

\* the field of AgentSuite each arm of execute_agent's match calls
AgentFor(agent_type) ==
    CASE agent_type = "Spec" -> "spec_agent"
      [] agent_type = "Code" -> "code_agent"
      [] agent_type = "TestGenerator" -> "test_generator"
      [] agent_type = "Reviewer" -> "reviewer"
      [] agent_type = "Debug" -> "debug_agent"

\* what the method called on each agent returns, rendered by serde_json::to_value
AgentOutput(agent) ==
    CASE agent = "spec_agent" -> SpecResponseJson
      [] agent = "code_agent" -> CodeStreamJson
      [] agent = "test_generator" -> TestSuiteJson
      [] agent = "reviewer" -> ReviewReportJson
      [] agent = "debug_agent" -> DebugReportJson

\* the response of the agent an AgentType dispatches to (execute_agent's match arms)
AgentResponse(agent_type) == AgentOutput(AgentFor(agent_type))

\* the error of a failing model-client call, as e.to_string()
ProviderError == "model provider error"

-----------------------------------------------------------------------------
(* AgentSuite::prepare_agent_input *)

\* prepare_agent_input whose Spec arm takes existing_requirements from a prior output
prepare_agent_input_SpecReadsPrior(agent_type, req, prev) ==
    IF agent_type = "Spec" /\ prev.some
    THEN JObj([prompt |-> JStr(req.prompt),
               context |-> ContextJson(req),
               project_type |-> OptionEntry(req, "project_type"),
               existing_requirements |-> OptToJson(Get(prev.val, "requirements"))])
    ELSE
        CASE agent_type = "Spec" ->
                JObj([prompt |-> JStr(req.prompt),
                      context |-> ContextJson(req),
                      project_type |-> OptionEntry(req, "project_type"),
                      existing_requirements |-> OptionEntry(req, "existing_requirements")])
          [] agent_type = "Code" ->
                IF prev.some
                THEN JObj([prompt |-> JStr(req.prompt),
                           context |-> ContextJson(req),
                           requirements |-> OptToJson(Get(prev.val, "requirements")),
                           existing_files |-> OptionEntry(req, "existing_files"),
                           target_files |-> OptionEntry(req, "target_files")])
                ELSE JObj([prompt |-> JStr(req.prompt),
                           context |-> ContextJson(req)])
          [] agent_type = "TestGenerator" ->
                IF prev.some
                THEN JObj([code_changes |-> OptToJson(Get(prev.val, "changes")),
                           requirements |-> OptToJson(Get(prev.val, "requirements")),
                           test_framework |-> OptionEntry(req, "test_framework"),
                           coverage_goals |-> OptionEntry(req, "coverage_goals")])
                ELSE JObj([prompt |-> JStr(req.prompt)])
          [] agent_type = "Reviewer" ->
                IF prev.some
                THEN JObj([code_changes |-> OptToJson(Get(prev.val, "changes")),
                           requirements |-> OptToJson(Get(prev.val, "requirements")),
                           review_focus |-> OptionEntry(req, "review_focus")])
                ELSE JObj([prompt |-> JStr(req.prompt)])
          [] agent_type = "Debug" ->
                JObj([logs |-> OptionEntry(req, "logs"),
                      error_context |-> ContextJson(req),
                      codebase_files |-> OptionEntry(req, "codebase_files"),
                      debug_focus |-> OptionEntry(req, "debug_focus")])

\* prepare_agent_input that falls back when the prior output lacks the key the arm reads
prepare_agent_input_FallbackWithoutKeys(agent_type, req, prev) ==
    IF /\ agent_type \in {"Code", "TestGenerator", "Reviewer"}
       /\ prev.some
       /\ ~Get(prev.val, IF agent_type = "Code" THEN "requirements" ELSE "changes").some
    THEN IF agent_type = "Code"
         THEN JObj([prompt |-> JStr(req.prompt), context |-> ContextJson(req)])
         ELSE JObj([prompt |-> JStr(req.prompt)])
    ELSE
        CASE agent_type = "Spec" ->
                JObj([prompt |-> JStr(req.prompt),
                      context |-> ContextJson(req),
                      project_type |-> OptionEntry(req, "project_type"),
                      existing_requirements |-> OptionEntry(req, "existing_requirements")])
          [] agent_type = "Code" ->
                IF prev.some
                THEN JObj([prompt |-> JStr(req.prompt),
                           context |-> ContextJson(req),
                           requirements |-> OptToJson(Get(prev.val, "requirements")),
                           existing_files |-> OptionEntry(req, "existing_files"),
                           target_files |-> OptionEntry(req, "target_files")])
                ELSE JObj([prompt |-> JStr(req.prompt),
                           context |-> ContextJson(req)])
          [] agent_type = "TestGenerator" ->
                IF prev.some
                THEN JObj([code_changes |-> OptToJson(Get(prev.val, "changes")),
                           requirements |-> OptToJson(Get(prev.val, "requirements")),
                           test_framework |-> OptionEntry(req, "test_framework"),
                           coverage_goals |-> OptionEntry(req, "coverage_goals")])
                ELSE JObj([prompt |-> JStr(req.prompt)])
          [] agent_type = "Reviewer" ->
                IF prev.some
                THEN JObj([code_changes |-> OptToJson(Get(prev.val, "changes")),
                           requirements |-> OptToJson(Get(prev.val, "requirements")),
                           review_focus |-> OptionEntry(req, "review_focus")])
                ELSE JObj([prompt |-> JStr(req.prompt)])
          [] agent_type = "Debug" ->
                JObj([logs |-> OptionEntry(req, "logs"),
                      error_context |-> ContextJson(req),
                      codebase_files |-> OptionEntry(req, "codebase_files"),
                      debug_focus |-> OptionEntry(req, "debug_focus")])

prepare_agent_input(agent_type, req, prev) ==
    CASE agent_type = "Spec" ->
            JObj([prompt |-> JStr(req.prompt),
                  context |-> ContextJson(req),
                  project_type |-> OptionEntry(req, "project_type"),
                  existing_requirements |-> OptionEntry(req, "existing_requirements")])
      [] agent_type = "Code" ->
            IF prev.some
            THEN JObj([prompt |-> JStr(req.prompt),
                       context |-> ContextJson(req),
                       requirements |-> OptToJson(Get(prev.val, "requirements")),
                       existing_files |-> OptionEntry(req, "existing_files"),
                       target_files |-> OptionEntry(req, "target_files")])
            ELSE JObj([prompt |-> JStr(req.prompt),
                       context |-> ContextJson(req)])
      [] agent_type = "TestGenerator" ->
            IF prev.some
            THEN JObj([code_changes |-> OptToJson(Get(prev.val, "changes")),
                       requirements |-> OptToJson(Get(prev.val, "requirements")),
                       test_framework |-> OptionEntry(req, "test_framework"),
                       coverage_goals |-> OptionEntry(req, "coverage_goals")])
            ELSE JObj([prompt |-> JStr(req.prompt)])
      [] agent_type = "Reviewer" ->
            IF prev.some
            THEN JObj([code_changes |-> OptToJson(Get(prev.val, "changes")),
                       requirements |-> OptToJson(Get(prev.val, "requirements")),
                       review_focus |-> OptionEntry(req, "review_focus")])
            ELSE JObj([prompt |-> JStr(req.prompt)])
      [] agent_type = "Debug" ->
            JObj([logs |-> OptionEntry(req, "logs"),
                  error_context |-> ContextJson(req),
                  codebase_files |-> OptionEntry(req, "codebase_files"),
                  debug_focus |-> OptionEntry(req, "debug_focus")])

-----------------------------------------------------------------------------
(* serde_json::from_value into the typed request of each agent.  A field  *)
(* the payload lacks reads as null: an Option field accepts it, any other *)
(* field rejects it.                                                       *)

Field(v, key) == IF key \in DOMAIN v.fields THEN v.fields[key] ELSE JNull

IsString(v) == v.t = "string"
IsOption(P(_), v) == v.t = "null" \/ P(v)
IsVec(P(_), v) == v.t = "array" /\ \A i \in DOMAIN v.elems : P(v.elems[i])
IsVecString(v) == IsVec(IsString, v)
IsStringMap(v) == v.t = "object" /\ \A k \in DOMAIN v.fields : IsString(v.fields[k])
HasStrings(v, keys) == v.t = "object" /\ \A k \in keys : IsString(Field(v, k))

\* code::ExistingFile and debug::CodebaseFile
IsSourceFile(v) == HasStrings(v, {"path", "content", "language"})
\* reviewer::CodeChange
IsReviewCodeChange(v) == HasStrings(v, {"file_path", "old_content", "new_content", "change_type"})
\* test_generator::CodeChange
IsTestCodeChange(v) == HasStrings(v, {"file_path", "new_content", "change_type"})
\* test_generator::ExistingTest
IsExistingTest(v) == HasStrings(v, {"file_path", "content", "framework"})
\* reviewer::ReviewFocus
IsReviewFocus(v) ==
    IsString(v) /\ v.s \in {"Security", "Performance", "Maintainability", "Testing",
                            "Documentation", "BestPractices", "Architecture"}
\* debug::DebugFocus
IsDebugFocus(v) ==
    IsString(v) /\ v.s \in {"ErrorAnalysis", "PerformanceIssues", "MemoryLeaks",
                            "RaceConditions", "IntegrationIssues", "ConfigurationProblems"}
\* debug::LogLevel
IsLogLevel(v) == IsString(v) /\ v.s \in {"Trace", "Debug", "Info", "Warn", "Error", "Fatal"}
\* debug::LogEntry
IsLogEntry(v) ==
    /\ HasStrings(v, {"timestamp", "message", "source"})
    /\ IsLogLevel(Field(v, "level"))
    /\ LET c == Field(v, "context") IN c.t = "null" \/ IsStringMap(c)

IsVecSourceFile(v) == IsVec(IsSourceFile, v)
IsVecReviewFocus(v) == IsVec(IsReviewFocus, v)
IsVecDebugFocus(v) == IsVec(IsDebugFocus, v)
IsVecExistingTest(v) == IsVec(IsExistingTest, v)

IsSpecRequest(v) ==
    /\ IsString(Field(v, "prompt"))
    /\ IsOption(IsStringMap, Field(v, "context"))
    /\ IsOption(IsString, Field(v, "project_type"))
    /\ IsOption(IsVecString, Field(v, "existing_requirements"))

IsCodeRequest(v) ==
    /\ IsString(Field(v, "prompt"))
    /\ IsOption(IsStringMap, Field(v, "context"))
    /\ IsOption(IsVecString, Field(v, "requirements"))
    /\ IsOption(IsVecSourceFile, Field(v, "existing_files"))
    /\ IsOption(IsVecString, Field(v, "target_files"))

IsTestRequest(v) ==
    /\ IsVec(IsTestCodeChange, Field(v, "code_changes"))
    /\ IsOption(IsVecString, Field(v, "requirements"))
    /\ IsOption(IsVecExistingTest, Field(v, "existing_tests"))
    /\ IsOption(IsString, Field(v, "test_framework"))
    /\ IsOption(IsVecString, Field(v, "coverage_goals"))

IsReviewRequest(v) ==
    /\ IsVec(IsReviewCodeChange, Field(v, "code_changes"))
    /\ IsOption(IsVecString, Field(v, "requirements"))
    /\ IsOption(IsStringMap, Field(v, "context"))
    /\ IsOption(IsVecReviewFocus, Field(v, "review_focus"))

IsDebugRequest(v) ==
    /\ IsVec(IsLogEntry, Field(v, "logs"))
    /\ IsOption(IsStringMap, Field(v, "error_context"))
    /\ IsOption(IsVecSourceFile, Field(v, "codebase_files"))
    /\ IsOption(IsVecString, Field(v, "recent_changes"))
    /\ IsOption(IsVecDebugFocus, Field(v, "debug_focus"))

\* from_value_ok of a conversion that accepts every payload
from_value_ok_AcceptsAnything(agent_type, input) == TRUE

\* whether serde_json::from_value(input) in execute_agent's arm for agent_type is Ok
from_value_ok(agent_type, input) ==
    CASE agent_type = "Spec" -> IsSpecRequest(input)
      [] agent_type = "Code" -> IsCodeRequest(input)
      [] agent_type = "TestGenerator" -> IsTestRequest(input)
      [] agent_type = "Reviewer" -> IsReviewRequest(input)
      [] agent_type = "Debug" -> IsDebugRequest(input)

\* e.to_string() of the serde error
DeserializeError == "invalid request payload"


-----------------------------------------------------------------------------
(* f32 arithmetic.  A value is m * 2^e with 2^23 <= m < 2^24, or zero;    *)
(* every operation rounds to nearest, ties to even, as IEEE 754 does.     *)

F32Zero == [m |-> 0, e |-> 0]
F32MantMin == 8388608      \* 2^23
F32MantMax == 16777216     \* 2^24

RECURSIVE F32ScaleUp(_, _, _)
\* the largest k with num * 2^k < den * 2^24, returned with num * 2^k
F32ScaleUp(num, den, k) ==
    IF 2 * num < den * F32MantMax THEN F32ScaleUp(2 * num, den, k + 1)
    ELSE [num |-> num, k |-> k]

\* round num / den to an integer, ties to even
RoundDiv(num, den) ==
    LET q == num \div den
        r == num % den
    IN  IF 2 * r > den \/ (2 * r = den /\ q % 2 = 1) THEN q + 1 ELSE q

\* m * 2^e with m possibly 2^24 after rounding up
F32Renorm(m, e) == IF m = F32MantMax THEN [m |-> F32MantMin, e |-> e + 1] ELSE [m |-> m, e |-> e]

\* (a as f32) / (b as f32) for integers 0 <= a, 0 < b below 2^24, which convert exactly
\* (each operand and the scaled numerator are bound once, as values)
F32DivInts(a, b) ==
    LET Quot(x, y) ==
            IF x = 0 THEN F32Zero
            ELSE CHOOSE q \in {F32Renorm(RoundDiv(sc.num, y), 0 - sc.k) : sc \in {F32ScaleUp(x, y, 0)}} : TRUE
    IN  CHOOSE q \in {Quot(x, y) : x \in {a}, y \in {b}} : TRUE

\* x * 100.0
F32Mul100(x) ==
    LET Prod(y) ==
            IF y.m = 0 THEN F32Zero
            ELSE LET p == y.m * 100       \* exact, between 2^29 and 2^31
                     s == IF p >= 128 * F32MantMin THEN 7 ELSE 6
                     d == IF s = 7 THEN 128 ELSE 64
                 IN  F32Renorm(RoundDiv(p, d), y.e + s)
    IN  CHOOSE r \in {Prod(y) : y \in {x}} : TRUE

\* a <= b for non-negative values
F32Leq(a, b) ==
    \/ a.m = 0
    \/ b.m # 0 /\ (a.e < b.e \/ (a.e = b.e /\ a.m <= b.m))

F32Hundred == [m |-> 13107200, e |-> -17]   \* 100.0 = 13107200 * 2^-17

RECURSIVE Pow2(_)
Pow2(n) == IF n = 0 THEN 1 ELSE 2 * Pow2(n - 1)


-----------------------------------------------------------------------------
(* Agent names at the service boundary.  A String is a sequence of        *)
(* one-character strings.                                                  *)

UpperLetters == <<"A", "B", "C", "D", "E", "F", "G", "H", "I", "J", "K", "L", "M",
                  "N", "O", "P", "Q", "R", "S", "T", "U", "V", "W", "X", "Y", "Z">>
LowerLetters == <<"a", "b", "c", "d", "e", "f", "g", "h", "i", "j", "k", "l", "m",
                  "n", "o", "p", "q", "r", "s", "t", "u", "v", "w", "x", "y", "z">>

ToLowerChar(c) ==
    IF \E i \in DOMAIN UpperLetters : UpperLetters[i] = c
    THEN LowerLetters[CHOOSE i \in DOMAIN UpperLetters : UpperLetters[i] = c]
    ELSE c

\* to_lowercase left out: the name is matched as supplied
to_lowercase_Identity(str) == str

\* str::to_lowercase
to_lowercase(str) == [i \in DOMAIN str |-> ToLowerChar(str[i])]

name_spec == <<"s", "p", "e", "c">>
name_code == <<"c", "o", "d", "e">>
name_test == <<"t", "e", "s", "t">>
name_test_generator == <<"t", "e", "s", "t", "_", "g", "e", "n", "e", "r", "a", "t", "o", "r">>
name_review == <<"r", "e", "v", "i", "e", "w">>
name_reviewer == <<"r", "e", "v", "i", "e", "w", "e", "r">>
name_debug == <<"d", "e", "b", "u", "g">>

\* the filter_map closure of process_request
ResolveName(agent) ==
    LET lower == to_lowercase(agent)
    IN  CASE lower = name_spec -> Some("Spec")
          [] lower = name_code -> Some("Code")
          [] lower = name_test \/ lower = name_test_generator -> Some("TestGenerator")
          [] lower = name_review \/ lower = name_reviewer -> Some("Reviewer")
          [] lower = name_debug -> Some("Debug")
          [] OTHER -> None

ResolveEach(names) == [i \in DOMAIN names |-> ResolveName(names[i])]

RECURSIVE CollectSome_Reversed(_)
\* CollectSome that prepends each value
CollectSome_Reversed(opts) ==
    IF opts = <<>> THEN <<>>
    ELSE CollectSome_Reversed(Tail(opts)) \o (IF Head(opts).some THEN <<Head(opts).val>> ELSE <<>>)

RECURSIVE CollectSome(_)
\* filter_map(..).collect(): the Some values, in order
CollectSome(opts) ==
    IF opts = <<>> THEN <<>>
    ELSE (IF Head(opts).some THEN <<Head(opts).val>> ELSE <<>>) \o CollectSome(Tail(opts))

\* process_request's default when the request carries no agent_sequence
ServiceDefaultNames == <<name_spec, name_code, name_reviewer>>

RECURSIVE JoinJsonText(_)
RECURSIVE JsonText(_)
\* Value::to_string of a null, a string or an array
JsonText(v) ==
    CASE v.t = "null" -> "null"
      [] v.t = "string" -> "\"" \o v.s \o "\""
      [] v.t = "array" -> "[" \o JoinJsonText(v.elems) \o "]"
JoinJsonText(es) ==
    IF es = <<>> THEN ""
    ELSE IF Len(es) = 1 THEN JsonText(es[1])
    ELSE JsonText(es[1]) \o "," \o JoinJsonText(Tail(es))

\* ctx.as_object().map(|map| ..(k, v.to_string())..).unwrap_or_default()
MapFromJson(v) ==
    IF v.t = "object" THEN [k \in DOMAIN v.fields |-> JsonText(v.fields[k])] ELSE <<>>

OptMapFromJson(o) == IF o.some THEN Some(MapFromJson(o.val)) ELSE None

-----------------------------------------------------------------------------
(* The requests tried *)

SeqsUpTo(S, n) == UNION {[1..k -> S] : k \in 0..n}

Prompt == "Add user authentication"

\* (context, options) of an AgentOrchestrationRequest
SuiteShapes ==
    { [context |-> None, options |-> None],
      [context |-> Some([env |-> "prod"]), options |-> Some([project_type |-> "web-app"])],
      [context |-> None,
       options |-> Some([existing_requirements |-> "REQ-0", review_focus |-> "Security",
                         logs |-> "panic at line 3"])] }

SuiteRequests ==
    { [prompt |-> Prompt, context |-> sh.context, agent_sequence |-> sq, options |-> sh.options] :
        sh \in SuiteShapes,
        sq \in {None} \cup {Some(q) : q \in SeqsUpTo(AgentTypes, MaxSeq)} }

\* (context, options) of an OrchestrationRequest: JSON values
ServiceShapes ==
    { [context |-> None, options |-> None],
      [context |-> Some(JObj([env |-> JStr("prod")])),
       options |-> Some(JObj([project_type |-> JStr("web-app")]))],
      [context |-> Some(JStr("prod")),
       options |-> Some(JObj([target_files |-> JArr(<<JStr("src/auth.js")>>),
                              coverage_goals |-> JNull]))] }

ServiceNames ==
    { name_spec, <<"C", "o", "d", "e">>, <<"T", "E", "S", "T">>, name_reviewer, name_debug,
      <<"d", "e", "p", "l", "o", "y">> }

ToUpperChar(c) ==
    IF \E i \in DOMAIN LowerLetters : LowerLetters[i] = c
    THEN UpperLetters[CHOOSE i \in DOMAIN LowerLetters : LowerLetters[i] = c]
    ELSE c

\* a lowercase name re-cased: all upper, first letter upper, every second letter upper
Recased(name, how) ==
    [i \in DOMAIN name |->
        IF how = "upper" \/ (how = "capital" /\ i = 1) \/ (how = "mixed" /\ i % 2 = 0)
        THEN ToUpperChar(name[i]) ELSE name[i]]

\* the names tried by the resolution-only specification
CaseNames ==
    { Recased(n, how) :
        n \in {name_spec, name_code, name_test, name_test_generator, name_review,
               name_reviewer, name_debug, <<"d", "e", "p", "l", "o", "y">>,
               <<"s", "p", "e", "c", "s">>, <<>>},
        how \in {"lower", "upper", "capital", "mixed"} }

ServiceRequests ==
    { [prompt |-> Prompt, context |-> sh.context, agent_sequence |-> sq, options |-> sh.options] :
        sh \in ServiceShapes,
        sq \in {None} \cup {Some(q) : q \in SeqsUpTo(ServiceNames, MaxSeq)} }

-----------------------------------------------------------------------------
(* Result *)

Ok(v) == [ok |-> TRUE, val |-> v]
Err(e) == [ok |-> FALSE, err |-> e]

-----------------------------------------------------------------------------
(* AgentSuite::orchestrate *)

\* orchestrate_begin that also substitutes the default for an empty sequence
orchestrate_begin_DefaultOnEmpty(req) ==
    /\ request' = req
    /\ agent_sequence' = IF req.agent_sequence.some /\ req.agent_sequence.val # <<>>
                         THEN req.agent_sequence.val
                         ELSE DefaultSequence
    /\ executions' = <<>>
    /\ warnings' = <<>>
    /\ previous_output' = None
    /\ pending_input' = JNull
    /\ cursor' = 0
    /\ calls' = <<>>
    /\ invoked' = <<>>
    /\ returns' = <<>>
    /\ suite_result' = None
    /\ pc' = "loop"

\* lines 88-102: the locals before the loop
orchestrate_begin(req) ==
    /\ request' = req
    /\ agent_sequence' = IF req.agent_sequence.some THEN req.agent_sequence.val
                         ELSE DefaultSequence
    /\ executions' = <<>>
    /\ warnings' = <<>>
    /\ previous_output' = None
    /\ pending_input' = JNull
    /\ cursor' = 0
    /\ calls' = <<>>
    /\ invoked' = <<>>
    /\ returns' = <<>>
    /\ suite_result' = None
    /\ pc' = "loop"

\* the agent type the for loop is at
CurrentAgent == agent_sequence[cursor]

\* LoopDone for a loop that stops at the first failed step
LoopDone_StopOnFailure ==
    \/ cursor = Len(agent_sequence)
    \/ executions # <<>> /\ ~executions[Len(executions)].success

\* the for loop has consumed the whole sequence
LoopDone == cursor = Len(agent_sequence)

\* WarningText that leaves the agent type out
WarningText_OmitsAgent(agent_type, e) == <<"Agent", "failed:", e>>

\* "Agent {:?} failed: {}"
WarningText(agent_type, e) == <<"Agent", agent_type, "failed:", e>>

\* StepOk that threads forward the output of Code steps only
StepOk_ThreadsCodeOnly(agent_type, input, output) ==
    /\ previous_output' = IF agent_type = "Code" THEN Some(output) ELSE previous_output
    /\ executions' = Append(executions,
                            [agent_type |-> agent_type, input |-> input, output |-> output,
                             success |-> TRUE, error_message |-> None])
    /\ UNCHANGED warnings

\* the Ok arm of the match on execute_agent, and the push of the record
StepOk(agent_type, input, output) ==
    /\ previous_output' = Some(output)
    /\ executions' = Append(executions,
                            [agent_type |-> agent_type, input |-> input, output |-> output,
                             success |-> TRUE, error_message |-> None])
    /\ UNCHANGED warnings

\* StepErr with the record pushed in the Ok arm only
StepErr_NoRecord(agent_type, e) ==
    /\ warnings' = Append(warnings, WarningText(agent_type, e))
    /\ UNCHANGED <<executions, previous_output>>

\* StepErr that resets the threaded output
StepErr_ClearsPrevious(agent_type, e) ==
    /\ warnings' = Append(warnings, WarningText(agent_type, e))
    /\ executions' = Append(executions,
                            [agent_type |-> agent_type, input |-> JNull,
                             output |-> JObj([error |-> JStr(e), agent |-> JStr(agent_type)]),
                             success |-> FALSE, error_message |-> Some(e)])
    /\ previous_output' = None

\* StepErr that records a null output for the failed step
StepErr_NullOutput(agent_type, e) ==
    /\ warnings' = Append(warnings, WarningText(agent_type, e))
    /\ executions' = Append(executions,
                            [agent_type |-> agent_type, input |-> JNull, output |-> JNull,
                             success |-> FALSE, error_message |-> Some(e)])
    /\ UNCHANGED previous_output

\* the Err arm of the match on execute_agent, and the push of the record
StepErr(agent_type, e) ==
    /\ warnings' = Append(warnings, WarningText(agent_type, e))
    /\ executions' = Append(executions,
                            [agent_type |-> agent_type, input |-> JNull,
                             output |-> JObj([error |-> JStr(e), agent |-> JStr(agent_type)]),
                             success |-> FALSE, error_message |-> Some(e)])
    /\ UNCHANGED previous_output

SuccessCount(execs) == Cardinality({i \in DOMAIN execs : execs[i].success})

\* SuccessRate over the successes so far plus one
SuccessRate_OffByOne(execs) ==
    IF execs = <<>> THEN F32Zero
    ELSE F32Mul100(F32DivInts(SuccessCount(execs), Len(execs) + 1))

\* SuccessRate without the guard on an empty list: 0.0 / 0.0 is NaN
SuccessRate_Unguarded(execs) ==
    IF execs = <<>> THEN [m |-> 0, e |-> 0, nan |-> TRUE]
    ELSE F32Mul100(F32DivInts(SuccessCount(execs), Len(execs)))

\* lines 133-138
SuccessRate(execs) ==
    IF execs = <<>> THEN F32Zero
    ELSE F32Mul100(F32DivInts(SuccessCount(execs), Len(execs)))

\* OrchestrationResponse that reports the output of the last record
OrchestrationResponse_LastRecord(execs, prev, seq, warns) ==
    [execution_order |-> execs,
     final_result |-> IF execs = <<>> THEN None ELSE Some(execs[Len(execs)].output),
     metadata |-> [agents_executed |-> Len(seq),
                   success_rate |-> SuccessRate(execs),
                   warnings |-> warns]]

\* OrchestrationResponse whose agents_executed counts the successful records only
OrchestrationResponse_CountsSuccesses(execs, prev, seq, warns) ==
    [execution_order |-> execs,
     final_result |-> prev,
     metadata |-> [agents_executed |-> SuccessCount(execs),
                   success_rate |-> SuccessRate(execs),
                   warnings |-> warns]]

\* lines 140-149
OrchestrationResponse(execs, prev, seq, warns) ==
    [execution_order |-> execs,
     final_result |-> prev,
     metadata |-> [agents_executed |-> Len(seq),
                   success_rate |-> SuccessRate(execs),
                   warnings |-> warns]]

-----------------------------------------------------------------------------
(* AgentOrchestrator::process_request *)

DebugFormat(seq) == [i \in DOMAIN seq |-> seq[i]]

\* ServiceResponse that reports a run without a final result as failed
ServiceResponse_FailsWithoutResult(result, seq) ==
    IF result.ok /\ result.val.final_result.some
    THEN [status |-> [tag |-> "Completed"],
          result |-> Some(OptToJson(result.val.final_result)),
          metadata |-> [agent_sequence |-> DebugFormat(seq), success |-> TRUE, error |-> None]]
    ELSE [status |-> [tag |-> "Failed", msg |-> "no agent succeeded"],
          result |-> None,
          metadata |-> [agent_sequence |-> DebugFormat(seq), success |-> FALSE,
                        error |-> Some("no agent succeeded")]]

\* ServiceResponse whose success flag tells whether some step produced a result
ServiceResponse_SuccessNeedsResult(result, seq) ==
    IF result.ok
    THEN [status |-> [tag |-> "Completed"],
          result |-> Some(OptToJson(result.val.final_result)),
          metadata |-> [agent_sequence |-> DebugFormat(seq),
                        success |-> result.val.final_result.some, error |-> None]]
    ELSE [status |-> [tag |-> "Failed", msg |-> result.err],
          result |-> None,
          metadata |-> [agent_sequence |-> DebugFormat(seq), success |-> FALSE,
                        error |-> Some(result.err)]]

\* lines 131-165: the match on the result of orchestrate
ServiceResponse(result, seq) ==
    IF result.ok
    THEN [status |-> [tag |-> "Completed"],
          result |-> Some(OptToJson(result.val.final_result)),
          metadata |-> [agent_sequence |-> DebugFormat(seq), success |-> TRUE, error |-> None]]
    ELSE [status |-> [tag |-> "Failed", msg |-> result.err],
          result |-> None,
          metadata |-> [agent_sequence |-> DebugFormat(seq), success |-> FALSE,
                        error |-> Some(result.err)]]

-----------------------------------------------------------------------------
(* Concurrent calls of process_request on one AgentOrchestrator: each call  *)
(* has its own locals; the OrchestratorState behind the mutex is shared.    *)

Runs == 1..MaxRuns

\* the requests of the concurrent calls
ConcurrentRequests ==
    { [prompt |-> Prompt, context |-> None, agent_sequence |-> sq, options |-> None] :
        sq \in {None, Some(<<name_code, name_test>>), Some(<<name_debug>>)} }

\* a call that has not been made
IdleRun ==
    [pc |-> "idle", svc_request |-> None, request |-> None, agent_sequence |-> <<>>,
     cursor |-> 0, previous_output |-> None, executions |-> <<>>, warnings |-> <<>>,
     pending_input |-> JNull, outcomes |-> <<>>, suite_result |-> None, svc_result |-> None]

\* process_request lines 102-128 and orchestrate lines 88-102: the locals of a call when
\* orchestrate reaches its loop
RunEntered(sreq) ==
    LET names == IF sreq.agent_sequence.some THEN sreq.agent_sequence.val
                 ELSE ServiceDefaultNames
        seq == CollectSome(ResolveEach(names))
    IN  [IdleRun EXCEPT
            !.pc = "loop",
            !.svc_request = Some(sreq),
            !.request = [prompt |-> sreq.prompt,
                         context |-> OptMapFromJson(sreq.context),
                         agent_sequence |-> Some(seq),
                         options |-> OptMapFromJson(sreq.options)],
            !.agent_sequence = seq]

\* the Ok arm of the match on execute_agent and the push of the record, on the locals L
RunStepOk(L, output) ==
    [L EXCEPT
        !.pc = "loop",
        !.previous_output = Some(output),
        !.executions = Append(@, [agent_type |-> L.agent_sequence[L.cursor],
                                  input |-> L.pending_input, output |-> output,
                                  success |-> TRUE, error_message |-> None]),
        !.pending_input = JNull]

\* the Err arm of the match on execute_agent and the push of the record, on the locals L
RunStepErr(L, e) ==
    [L EXCEPT
        !.pc = "loop",
        !.warnings = Append(@, WarningText(L.agent_sequence[L.cursor], e)),
        !.executions = Append(@, [agent_type |-> L.agent_sequence[L.cursor],
                                  input |-> JNull,
                                  output |-> JObj([error |-> JStr(e),
                                                   agent |-> JStr(L.agent_sequence[L.cursor])]),
                                  success |-> FALSE, error_message |-> Some(e)]),
        !.pending_input = JNull]

\* the for loop takes the next element and execute_agent runs up to the agent's await,
\* given the prior output prev
RunBeginStep(L, prev) ==
    LET agent_type == L.agent_sequence[L.cursor + 1]
        input == prepare_agent_input(agent_type, L.request, prev)
        L1 == [L EXCEPT !.cursor = @ + 1]
    IN  IF from_value_ok(agent_type, input)
        THEN [L1 EXCEPT !.pc = "await", !.pending_input = input]
        ELSE RunStepErr(L1, DeserializeError)

\* orchestrate lines 132-149 and process_request lines 131-165: the loop is over, both
\* responses are built and the call waits for the mutex of line 169
RunReturn(L) ==
    LET result == Ok(OrchestrationResponse(L.executions, L.previous_output,
                                           L.agent_sequence, L.warnings))
    IN  [L EXCEPT
            !.pc = "lock_end",
            !.suite_result = result,
            !.svc_result = Ok(ServiceResponse(result, L.agent_sequence))]

\* PriorOutputOf for a prior output kept in one place for all calls
PriorOutputOf_Shared(r) ==
    IF \E q \in Runs : runs[q].previous_output.some
    THEN runs[CHOOSE q \in Runs : runs[q].previous_output.some].previous_output
    ELSE None

\* the previous_output that call r passes to execute_agent: its own local
PriorOutputOf(r) == runs[r].previous_output

\* the single-call variables, which concurrent calls do not use
single_vars ==
    <<pc, entry, svc_request, resolved_each, request, agent_sequence, cursor, previous_output,
      executions, warnings, pending_input, calls, invoked, returns, suite_result, svc_result,
      http_response, mapped, github, stream>>

\* process_request is called and reaches the lock().await of line 96
RunCalled ==
    \E r \in Runs :
        /\ runs[r].pc = "idle"
        /\ \E sreq \in ConcurrentRequests :
              runs' = [runs EXCEPT ![r] = [IdleRun EXCEPT !.pc = "lock_start",
                                                         !.svc_request = Some(sreq)]]
        /\ UNCHANGED <<lock, active_sessions, total_requests>>
        /\ UNCHANGED single_vars

\* the mutex is granted to a call waiting at line 96
RunLocksAtStart ==
    \E r \in Runs :
        /\ runs[r].pc = "lock_start"
        /\ lock = 0
        /\ lock' = r
        /\ runs' = [runs EXCEPT ![r].pc = "locked_start"]
        /\ UNCHANGED <<active_sessions, total_requests>>
        /\ UNCHANGED single_vars

\* RunCounted with the guard living until the end of process_request
RunCounted_KeepsLock ==
    \E r \in Runs :
        /\ runs[r].pc = "locked_start"
        /\ active_sessions' = active_sessions + 1
        /\ total_requests' = total_requests + 1
        /\ runs' = [runs EXCEPT ![r] = RunEntered(runs[r].svc_request.val)]
        /\ UNCHANGED lock
        /\ UNCHANGED single_vars

\* RunCounted that derives total_requests from the sessions in progress
RunCounted_TotalFromSessions ==
    \E r \in Runs :
        /\ runs[r].pc = "locked_start"
        /\ active_sessions' = active_sessions + 1
        /\ total_requests' = active_sessions + 1
        /\ lock' = 0
        /\ runs' = [runs EXCEPT ![r] = RunEntered(runs[r].svc_request.val)]
        /\ UNCHANGED single_vars

\* lines 97-99 and on: both counters are incremented, the guard is dropped at the end of
\* its block, and the call goes on into orchestrate
RunCounted ==
    \E r \in Runs :
        /\ runs[r].pc = "locked_start"
        /\ active_sessions' = active_sessions + 1
        /\ total_requests' = total_requests + 1
        /\ lock' = 0
        /\ runs' = [runs EXCEPT ![r] = RunEntered(runs[r].svc_request.val)]
        /\ UNCHANGED single_vars

RunBeginsStep ==
    \E r \in Runs :
        /\ runs[r].pc = "loop"
        /\ runs[r].cursor < Len(runs[r].agent_sequence)
        /\ runs' = [runs EXCEPT ![r] = RunBeginStep(runs[r], PriorOutputOf(r))]
        /\ UNCHANGED <<lock, active_sessions, total_requests>>
        /\ UNCHANGED single_vars

RunAgentSucceeds ==
    \E r \in Runs :
        /\ runs[r].pc = "await"
        /\ runs' = [runs EXCEPT ![r] =
                       [RunStepOk(runs[r], AgentResponse(runs[r].agent_sequence[runs[r].cursor]))
                            EXCEPT !.outcomes = Append(@, TRUE)]]
        /\ UNCHANGED <<lock, active_sessions, total_requests>>
        /\ UNCHANGED single_vars

RunAgentFails ==
    \E r \in Runs :
        /\ runs[r].pc = "await"
        /\ runs' = [runs EXCEPT ![r] =
                       [RunStepErr(runs[r], ProviderError) EXCEPT !.outcomes = Append(@, FALSE)]]
        /\ UNCHANGED <<lock, active_sessions, total_requests>>
        /\ UNCHANGED single_vars

RunReturns ==
    \E r \in Runs :
        /\ runs[r].pc = "loop"
        /\ runs[r].cursor = Len(runs[r].agent_sequence)
        /\ runs' = [runs EXCEPT ![r] = RunReturn(runs[r])]
        /\ UNCHANGED <<lock, active_sessions, total_requests>>
        /\ UNCHANGED single_vars

\* the mutex is granted to a call waiting at line 169
RunLocksAtEnd ==
    \E r \in Runs :
        /\ runs[r].pc = "lock_end"
        /\ lock = 0
        /\ lock' = r
        /\ runs' = [runs EXCEPT ![r].pc = "locked_end"]
        /\ UNCHANGED <<active_sessions, total_requests>>
        /\ UNCHANGED single_vars

\* RunFinished that leaves active_sessions as it is
RunFinished_NoDecrement ==
    \E r \in Runs :
        /\ runs[r].pc = "locked_end"
        /\ lock' = 0
        /\ runs' = [runs EXCEPT ![r].pc = "done"]
        /\ UNCHANGED <<active_sessions, total_requests>>
        /\ UNCHANGED single_vars

\* lines 170-173: active_sessions is decremented, the guard dropped, the response returned
RunFinished ==
    \E r \in Runs :
        /\ runs[r].pc = "locked_end"
        /\ active_sessions' = active_sessions - 1
        /\ lock' = 0
        /\ runs' = [runs EXCEPT ![r].pc = "done"]
        /\ UNCHANGED total_requests
        /\ UNCHANGED single_vars

NextConcurrent ==
    \/ RunCalled
    \/ RunLocksAtStart
    \/ RunCounted
    \/ RunBeginsStep
    \/ RunAgentSucceeds
    \/ RunAgentFails
    \/ RunReturns
    \/ RunLocksAtEnd
    \/ RunFinished

-----------------------------------------------------------------------------
(* prepare_agent_input called on its own, on every shape of its arguments *)

\* prior outputs: none, the agents' responses, objects lacking one or both of the keys
\* the mapper reads, values that are not objects
PriorOutputs ==
    {None} \cup
    { Some(v) : v \in { SpecResponseJson, CodeStreamJson, ReviewReportJson,
                        JObj([requirements |-> JArr(<<JStr("REQ-001")>>),
                              changes |-> JArr(<<>>)]),
                        JObj([note |-> JStr("text")]),
                        JNull, JStr("text"), JNum, JArr(<<JStr("text")>>) } }

MapperRequests ==
    { [prompt |-> Prompt, context |-> sh.context, agent_sequence |-> None,
       options |-> sh.options] : sh \in SuiteShapes }

\* MappedPayload that refuses a prior output without the key the arm reads
MappedPayload_RequiresKeys(agent_type, req, prev) ==
    IF /\ agent_type \in {"Code", "TestGenerator", "Reviewer"}
       /\ prev.some
       /\ ~Get(prev.val, IF agent_type = "Code" THEN "requirements" ELSE "changes").some
    THEN Err("missing field")
    ELSE Ok(prepare_agent_input(agent_type, req, prev))

\* the Result prepare_agent_input returns: every arm of its match ends in Ok(json!(..))
MappedPayload(agent_type, req, prev) == Ok(prepare_agent_input(agent_type, req, prev))

\* the states outside a lone call of the mapper
mapper_other_vars ==
    <<pc, entry, svc_request, resolved_each, request, agent_sequence, cursor, previous_output,
      executions, warnings, pending_input, calls, invoked, returns, suite_result, svc_result,
      active_sessions, total_requests, http_response, runs, lock, github, stream>>

\* one call of prepare_agent_input
MapInput ==
    /\ mapped = None
    /\ \E agent_type \in AgentTypes, req \in MapperRequests, prev \in PriorOutputs :
          mapped' = Some([agent_type |-> agent_type, request |-> req,
                          previous_output |-> prev,
                          result |-> MappedPayload(agent_type, req, prev)])
    /\ UNCHANGED mapper_other_vars

-----------------------------------------------------------------------------
(* GitHubApp::create_commit *)

Paths == {"src/a.rs", "src/b.rs"}

\* the identifiers the server may answer with
Shas == {"sha1", "sha2"}

\* how one HTTP call ends: a success status with a body that parses, a failure status,
\* or an error of send() or json()
HttpOutcomes == {"ok", "status", "transport"}

\* request.changes of the CreateCommitRequest values tried
ChangeLists ==
    UNION { [1..n -> {[path |-> p, content |-> "text"] : p \in Paths}] : n \in 0..MaxChanges }

\* no method of GitHubApp has been called
IdleCommit ==
    [pc |-> "idle", op |-> "none", has_token |-> FALSE,
     changes |-> <<>>, base_sha |-> None, base_tree_sha |-> None,
     tree_entries |-> <<>>, tree_sha |-> None, log |-> <<>>, result |-> None]

\* the error a call returns on an outcome other than "ok"
HttpError(what, outcome) ==
    IF outcome = "status" THEN <<"Failed to", what>> ELSE <<"request error">>

\* one HTTP call and its answer, appended to the log; a failed call ends create_commit
\* with its error (the ? after each await)
Called(g, kind, body, outcome, sha, what) ==
    LET g1 == [g EXCEPT !.log = Append(@, [kind |-> kind, body |-> body,
                                           outcome |-> outcome,
                                           sha |-> IF outcome = "ok" THEN Some(sha) ELSE None])]
    IN  IF outcome = "ok" THEN g1
        ELSE [g1 EXCEPT !.pc = "done", !.result = Err(HttpError(what, outcome))]

\* the states outside create_commit
commit_other_vars ==
    <<pc, entry, svc_request, resolved_each, request, agent_sequence, cursor, previous_output,
      executions, warnings, pending_input, calls, invoked, returns, suite_result, svc_result,
      active_sessions, total_requests, http_response, runs, lock, mapped, stream>>

\* create_commit is called: the access token is required before any call is made
CreateCommitCalled ==
    /\ github.pc = "idle"
    /\ \E changes \in ChangeLists, has_token \in BOOLEAN :
          github' = IF has_token
                    THEN [IdleCommit EXCEPT !.pc = "get_branch", !.op = "create_commit",
                                            !.has_token = TRUE, !.changes = changes]
                    ELSE [IdleCommit EXCEPT !.pc = "done", !.op = "create_commit",
                                            !.changes = changes,
                                            !.result = Err(<<"Access token required">>)]
    /\ UNCHANGED commit_other_vars

\* GET git/ref/heads/{branch}: the head of the branch
GetBranch ==
    /\ github.pc = "get_branch"
    /\ \E outcome \in HttpOutcomes, sha \in Shas :
          LET g == Called(github, "get_ref", JNull, outcome, sha, "get branch")
          IN  github' = IF outcome = "ok"
                        THEN [g EXCEPT !.pc = "get_commit", !.base_sha = Some(sha)]
                        ELSE g
    /\ UNCHANGED commit_other_vars

\* GET git/commits/{base_sha}: the tree of the head commit
GetCommit ==
    /\ github.pc = "get_commit"
    /\ \E outcome \in HttpOutcomes, sha \in Shas :
          LET g == Called(github, "get_commit", JStr(github.base_sha.val), outcome, sha,
                          "get commit")
          IN  github' = IF outcome = "ok"
                        THEN [g EXCEPT !.pc = "blobs", !.base_tree_sha = Some(sha)]
                        ELSE g
    /\ UNCHANGED commit_other_vars

\* CreateBlob that skips a file whose blob could not be created
CreateBlob_SkipsFailedFile ==
    /\ github.pc = "blobs"
    /\ Len(github.tree_entries) < Len(github.changes)
    /\ \E outcome \in HttpOutcomes, sha \in Shas :
          LET change == github.changes[Len(github.tree_entries) + 1]
              g == [github EXCEPT !.log = Append(@, [kind |-> "blob", body |-> change,
                                                     outcome |-> outcome,
                                                     sha |-> IF outcome = "ok" THEN Some(sha)
                                                             ELSE None])]
          IN  github' = [g EXCEPT !.tree_entries =
                                     Append(@, [path |-> change.path, mode |-> "100644",
                                                entry_type |-> "blob", sha |-> sha])]
    /\ UNCHANGED commit_other_vars

\* one turn of the loop over request.changes: create_blob, then the tree entry
CreateBlob ==
    /\ github.pc = "blobs"
    /\ Len(github.tree_entries) < Len(github.changes)
    /\ \E outcome \in HttpOutcomes, sha \in Shas :
          LET change == github.changes[Len(github.tree_entries) + 1]
              g == Called(github, "blob", change, outcome, sha, "create blob")
          IN  github' = IF outcome = "ok"
                        THEN [g EXCEPT !.tree_entries =
                                          Append(@, [path |-> change.path, mode |-> "100644",
                                                     entry_type |-> "blob", sha |-> sha])]
                        ELSE g
    /\ UNCHANGED commit_other_vars

\* the loop is over: create_tree on the base tree and the entries
CreateTree ==
    /\ github.pc = "blobs"
    /\ Len(github.tree_entries) = Len(github.changes)
    /\ \E outcome \in HttpOutcomes, sha \in Shas :
          LET g == Called(github, "tree",
                          [base_tree |-> github.base_tree_sha.val,
                           tree |-> github.tree_entries],
                          outcome, sha, "create tree")
          IN  github' = IF outcome = "ok"
                        THEN [g EXCEPT !.pc = "commit", !.tree_sha = Some(sha)]
                        ELSE g
    /\ UNCHANGED commit_other_vars

\* create_git_commit on the new tree with the branch head as parent, then the response
CreateGitCommit ==
    /\ github.pc = "commit"
    /\ \E outcome \in HttpOutcomes, sha \in Shas :
          LET g == Called(github, "commit",
                          [tree |-> github.tree_sha.val,
                           parents |-> <<github.base_sha.val>>],
                          outcome, sha, "create commit")
          IN  github' = IF outcome = "ok"
                        THEN [g EXCEPT !.pc = "done",
                                       !.result = Ok([commit_sha |-> sha,
                                                      tree_sha |-> github.tree_sha.val])]
                        ELSE g
    /\ UNCHANGED commit_other_vars

NextCommit ==
    \/ CreateCommitCalled
    \/ GetBranch
    \/ GetCommit
    \/ CreateBlob
    \/ CreateTree
    \/ CreateGitCommit

-----------------------------------------------------------------------------
(* GitHubApp::create_branch and GitHubApp::create_pull_request *)

\* CreateBranchCalled that goes on to its first call whether or not there is a token
CreateBranchCalled_NoTokenCheck ==
    /\ github.pc = "idle"
    /\ \E has_token \in BOOLEAN :
          github' = [IdleCommit EXCEPT !.pc = "branch_get_ref", !.op = "create_branch",
                                       !.has_token = has_token]
    /\ UNCHANGED commit_other_vars

\* create_branch is called: the access token is required before any call is made
CreateBranchCalled ==
    /\ github.pc = "idle"
    /\ \E has_token \in BOOLEAN :
          github' = IF has_token
                    THEN [IdleCommit EXCEPT !.pc = "branch_get_ref", !.op = "create_branch",
                                            !.has_token = TRUE]
                    ELSE [IdleCommit EXCEPT !.pc = "done", !.op = "create_branch",
                                            !.result = Err(<<"Access token required">>)]
    /\ UNCHANGED commit_other_vars

\* create_branch: GET git/ref/heads/{base_branch}
BranchGetRef ==
    /\ github.pc = "branch_get_ref"
    /\ \E outcome \in HttpOutcomes, sha \in Shas :
          LET g == Called(github, "get_ref", JNull, outcome, sha, "get base branch")
          IN  github' = IF outcome = "ok"
                        THEN [g EXCEPT !.pc = "branch_create_ref", !.base_sha = Some(sha)]
                        ELSE g
    /\ UNCHANGED commit_other_vars

\* create_branch: POST git/refs with the new reference on the base sha, then the response
BranchCreateRef ==
    /\ github.pc = "branch_create_ref"
    /\ \E outcome \in HttpOutcomes :
          LET g == Called(github, "create_ref", [sha |-> github.base_sha.val], outcome,
                          github.base_sha.val, "create branch")
          IN  github' = IF outcome = "ok"
                        THEN [g EXCEPT !.pc = "done",
                                       !.result = Ok([object_sha |-> github.base_sha.val])]
                        ELSE g
    /\ UNCHANGED commit_other_vars

\* create_pull_request is called: the access token is required before any call is made
CreatePullRequestCalled ==
    /\ github.pc = "idle"
    /\ \E has_token \in BOOLEAN :
          github' = IF has_token
                    THEN [IdleCommit EXCEPT !.pc = "pr_post", !.op = "create_pull_request",
                                            !.has_token = TRUE]
                    ELSE [IdleCommit EXCEPT !.pc = "done", !.op = "create_pull_request",
                                            !.result = Err(<<"Access token required">>)]
    /\ UNCHANGED commit_other_vars

\* create_pull_request: POST pulls, then the response with the number the server gave
PullRequestPost ==
    /\ github.pc = "pr_post"
    /\ \E outcome \in HttpOutcomes, number \in {1, 2} :
          LET g == Called(github, "create_pr", JNull, outcome, number, "create PR")
          IN  github' = IF outcome = "ok"
                        THEN [g EXCEPT !.pc = "done", !.result = Ok([pr_number |-> number])]
                        ELSE g
    /\ UNCHANGED commit_other_vars

NextGitHub ==
    \/ CreateBranchCalled
    \/ BranchGetRef
    \/ BranchCreateRef
    \/ CreateCommitCalled
    \/ GetBranch
    \/ GetCommit
    \/ CreateBlob
    \/ CreateTree
    \/ CreateGitCommit
    \/ CreatePullRequestCalled
    \/ PullRequestPost

-----------------------------------------------------------------------------
(* MockStreamCompletion (agents/code and backend/orchestrator hold the same code) *)

\* the UTF-8 widths of the characters tried
CharWidths == {1, 2}

\* a String as its bytes: byte b of character i is <<i, b>>; c lists the width of each
\* character
RECURSIVE Utf8(_, _)
Utf8(c, i) ==
    IF i > Len(c) THEN <<>>
    ELSE [b \in 1..c[i] |-> <<i, b>>] \o Utf8(c, i + 1)

\* the contents tried
Contents == {Utf8(c, 1) : c \in SeqsUpTo(CharWidths, MaxChars)}

\* str::is_char_boundary
is_char_boundary(bytes, n) ==
    \/ n = 0
    \/ n = Len(bytes)
    \/ n < Len(bytes) /\ bytes[n + 1][2] = 1

\* no stream has been made
NoStream ==
    [made |-> FALSE, content |-> <<>>, position |-> 0, returned |-> <<>>, panicked |-> FALSE]

\* MockStreamCompletion::next: the slice content[position..end] panics when an end of the
\* range is not a character boundary
next(s) ==
    IF s.position >= Len(s.content)
    THEN [s EXCEPT !.returned = Append(@, None)]
    ELSE LET end == IF s.position + chunk_size <= Len(s.content)
                    THEN s.position + chunk_size ELSE Len(s.content)
         IN  IF is_char_boundary(s.content, s.position) /\ is_char_boundary(s.content, end)
             THEN [s EXCEPT !.position = end,
                            !.returned = Append(@, Some(SubSeq(s.content, s.position + 1, end)))]
             ELSE [s EXCEPT !.panicked = TRUE]

\* the states outside a stream
stream_other_vars ==
    <<pc, entry, svc_request, resolved_each, request, agent_sequence, cursor, previous_output,
      executions, warnings, pending_input, calls, invoked, returns, suite_result, svc_result,
      active_sessions, total_requests, http_response, runs, lock, mapped, github>>

\* MockStreamCompletion::new
StreamNew ==
    /\ ~stream.made
    /\ \E content \in Contents :
          stream' = [NoStream EXCEPT !.made = TRUE, !.content = content]
    /\ UNCHANGED stream_other_vars

\* one call of next; at most MaxIdleCalls calls are made after the end of the stream
StreamNext ==
    /\ stream.made
    /\ ~stream.panicked
    /\ Cardinality({i \in DOMAIN stream.returned : ~stream.returned[i].some}) < MaxIdleCalls
    /\ stream' = next(stream)
    /\ UNCHANGED stream_other_vars

NextStream ==
    \/ StreamNew
    \/ StreamNext

-----------------------------------------------------------------------------
(* Actions *)

Init ==
    /\ pc = "idle"
    /\ entry = "none"
    /\ svc_request = None
    /\ resolved_each = <<>>
    /\ request = None
    /\ agent_sequence = <<>>
    /\ cursor = 0
    /\ previous_output = None
    /\ executions = <<>>
    /\ warnings = <<>>
    /\ pending_input = JNull
    /\ calls = <<>>
    /\ invoked = <<>>
    /\ returns = <<>>
    /\ suite_result = None
    /\ svc_result = None
    /\ active_sessions = 0
    /\ total_requests = 0
    /\ http_response = None
    /\ runs = [r \in Runs |-> IdleRun]
    /\ lock = 0
    /\ mapped = None
    /\ github = IdleCommit
    /\ stream = NoStream

\* a caller of the library calls AgentSuite::orchestrate
CallOrchestrate ==
    /\ pc = "idle"
    /\ \E req \in SuiteRequests :
          /\ entry' = "suite"
          /\ orchestrate_begin(req)
          /\ UNCHANGED <<svc_request, resolved_each, svc_result, active_sessions, total_requests>>
    /\ UNCHANGED env_vars

\* process_request up to the call of orchestrate and into its loop
ProcessRequestStart ==
    /\ pc = "idle"
    /\ \E sreq \in ServiceRequests :
          /\ entry' = "service"
          /\ svc_request' = sreq
          /\ active_sessions' = active_sessions + 1
          /\ total_requests' = total_requests + 1
          /\ LET names == IF sreq.agent_sequence.some THEN sreq.agent_sequence.val
                          ELSE ServiceDefaultNames
                 each == ResolveEach(names)
             IN  /\ resolved_each' = each
                 /\ orchestrate_begin([prompt |-> sreq.prompt,
                                       context |-> OptMapFromJson(sreq.context),
                                       agent_sequence |-> Some(CollectSome(each)),
                                       options |-> OptMapFromJson(sreq.options)])
          /\ UNCHANGED svc_result
    /\ UNCHANGED env_vars

\* BeginStep that starts the next step while the previous agent is still awaited
BeginStep_WithoutWaiting ==
    /\ pc \in {"loop", "await"}
    /\ ~LoopDone
    /\ cursor' = cursor + 1
    /\ LET agent_type == agent_sequence[cursor + 1]
           input == prepare_agent_input(agent_type, request, previous_output)
       IN  /\ calls' = Append(calls, [agent_type |-> agent_type, previous_output |-> previous_output])
           /\ IF from_value_ok(agent_type, input)
              THEN /\ pc' = "await"
                   /\ pending_input' = input
                   /\ invoked' = Append(invoked, AgentFor(agent_type))
                   /\ UNCHANGED <<previous_output, executions, warnings, returns>>
              ELSE /\ StepErr(agent_type, DeserializeError)
                   /\ returns' = Append(returns, FALSE)
                   /\ UNCHANGED <<pc, pending_input, invoked>>
    /\ UNCHANGED <<entry, svc_request, resolved_each, request, agent_sequence,
                   suite_result, svc_result, active_sessions, total_requests>>
    /\ UNCHANGED env_vars

\* execute_agent up to the agent's await: the mapper, then from_value
BeginStep ==
    /\ pc = "loop"
    /\ ~LoopDone
    /\ cursor' = cursor + 1
    /\ LET agent_type == agent_sequence[cursor + 1]
           input == prepare_agent_input(agent_type, request, previous_output)
       IN  /\ calls' = Append(calls, [agent_type |-> agent_type, previous_output |-> previous_output])
           /\ IF from_value_ok(agent_type, input)
              THEN /\ pc' = "await"
                   /\ pending_input' = input
                   /\ invoked' = Append(invoked, AgentFor(agent_type))
                   /\ UNCHANGED <<previous_output, executions, warnings, returns>>
              ELSE /\ StepErr(agent_type, DeserializeError)
                   /\ returns' = Append(returns, FALSE)
                   /\ UNCHANGED <<pc, pending_input, invoked>>
    /\ UNCHANGED <<entry, svc_request, resolved_each, request, agent_sequence,
                   suite_result, svc_result, active_sessions, total_requests>>
    /\ UNCHANGED env_vars

\* AgentSucceeds that takes the options out of the request once a step has used them
AgentSucceeds_ConsumesOptions ==
    /\ pc = "await"
    /\ StepOk(CurrentAgent, pending_input, AgentResponse(CurrentAgent))
    /\ returns' = Append(returns, TRUE)
    /\ pc' = "loop"
    /\ pending_input' = JNull
    /\ request' = [request EXCEPT !.options = None]
    /\ UNCHANGED <<entry, svc_request, resolved_each, agent_sequence, cursor, calls, invoked,
                   suite_result, svc_result, active_sessions, total_requests>>
    /\ UNCHANGED env_vars

\* the agent returns its response
AgentSucceeds ==
    /\ pc = "await"
    /\ StepOk(CurrentAgent, pending_input, AgentResponse(CurrentAgent))
    /\ returns' = Append(returns, TRUE)
    /\ pc' = "loop"
    /\ pending_input' = JNull
    /\ UNCHANGED <<entry, svc_request, resolved_each, request, agent_sequence, cursor, calls, invoked,
                   suite_result, svc_result, active_sessions, total_requests>>
    /\ UNCHANGED env_vars

\* a model-client call of the agent fails and the agent returns the error
AgentFails ==
    /\ pc = "await"
    /\ StepErr(CurrentAgent, ProviderError)
    /\ returns' = Append(returns, FALSE)
    /\ pc' = "loop"
    /\ pending_input' = JNull
    /\ UNCHANGED <<entry, svc_request, resolved_each, request, agent_sequence, cursor, calls, invoked,
                   suite_result, svc_result, active_sessions, total_requests>>
    /\ UNCHANGED env_vars

\* OrchestrateReturn that propagates the first step failure as its own error
OrchestrateReturn_PropagatesFailure ==
    /\ pc = "loop"
    /\ LoopDone
    /\ suite_result' =
          IF warnings = <<>>
          THEN Ok(OrchestrationResponse(executions, previous_output, agent_sequence, warnings))
          ELSE Err(warnings[1])
    /\ pc' = IF entry = "service" THEN "unlock" ELSE "done"
    /\ UNCHANGED <<entry, svc_request, resolved_each, request, agent_sequence, cursor,
                   previous_output, executions, warnings, pending_input, calls, invoked,
                   returns, svc_result, active_sessions, total_requests>>
    /\ UNCHANGED env_vars

\* orchestrate leaves the loop and returns
OrchestrateReturn ==
    /\ pc = "loop"
    /\ LoopDone
    /\ suite_result' = Ok(OrchestrationResponse(executions, previous_output, agent_sequence, warnings))
    /\ pc' = IF entry = "service" THEN "unlock" ELSE "done"
    /\ UNCHANGED <<entry, svc_request, resolved_each, request, agent_sequence, cursor,
                   previous_output, executions, warnings, pending_input, calls, invoked,
                   returns, svc_result, active_sessions, total_requests>>
    /\ UNCHANGED env_vars

\* process_request after orchestrate: the response, the state update, the return
ProcessRequestFinish ==
    /\ pc = "unlock"
    /\ active_sessions' = active_sessions - 1
    /\ svc_result' = Ok(ServiceResponse(suite_result, request.agent_sequence.val))
    /\ pc' = "done"
    /\ UNCHANGED <<entry, svc_request, resolved_each, request, agent_sequence, cursor,
                   previous_output, executions, warnings, pending_input, calls, invoked,
                   returns, suite_result, total_requests>>
    /\ UNCHANGED env_vars

\* the name resolution of process_request (lines 102-113) applied to a name list
ResolveNames ==
    /\ pc = "idle"
    /\ \E names \in SeqsUpTo(CaseNames, MaxNameLists) :
          /\ svc_request' = [prompt |-> Prompt, context |-> None,
                             agent_sequence |-> Some(names), options |-> None]
          /\ resolved_each' = ResolveEach(names)
          /\ agent_sequence' = CollectSome(ResolveEach(names))
          /\ pc' = "resolved"
          /\ UNCHANGED <<entry, request, cursor, previous_output, executions, warnings,
                         pending_input, calls, invoked, returns, suite_result, svc_result,
                         active_sessions, total_requests>>
    /\ UNCHANGED env_vars

\* the handler of POST /api/v1/orchestrate answers with the response of process_request
HandlerReturns ==
    /\ entry = "service"
    /\ pc = "done"
    /\ http_response = None
    /\ http_response' = Some([status |-> 200, body |-> Some(svc_result.val)])
    /\ UNCHANGED <<pc, entry, svc_request, resolved_each, request, agent_sequence, cursor,
                   previous_output, executions, warnings, pending_input, calls, invoked,
                   returns, suite_result, svc_result, active_sessions, total_requests,
                   runs, lock, mapped, github, stream>>

\* DeadlineFires that answers with what the abandoned run has gathered so far
DeadlineFires_ReturnsPartial ==
    /\ entry = "service"
    /\ pc = "await"
    /\ http_response = None
    /\ pc' = "dropped"
    /\ http_response' =
          Some([status |-> 200,
                body |-> Some(ServiceResponse(
                                 Ok(OrchestrationResponse(executions, previous_output,
                                                          agent_sequence, warnings)),
                                 agent_sequence))])
    /\ UNCHANGED <<entry, svc_request, resolved_each, request, agent_sequence, cursor,
                   previous_output, executions, warnings, pending_input, calls, invoked,
                   returns, suite_result, svc_result, active_sessions, total_requests,
                   runs, lock, mapped, github, stream>>

\* TimeoutLayer: the deadline passes while the run is suspended in a step; the future of
\* the handler is dropped where it is and the caller gets 408 with an empty body
DeadlineFires ==
    /\ entry = "service"
    /\ pc = "await"
    /\ http_response = None
    /\ pc' = "dropped"
    /\ http_response' = Some([status |-> 408, body |-> None])
    /\ UNCHANGED <<entry, svc_request, resolved_each, request, agent_sequence, cursor,
                   previous_output, executions, warnings, pending_input, calls, invoked,
                   returns, suite_result, svc_result, active_sessions, total_requests,
                   runs, lock, mapped, github, stream>>

Next ==
    \/ CallOrchestrate
    \/ ProcessRequestStart
    \/ BeginStep
    \/ AgentSucceeds
    \/ AgentFails
    \/ OrchestrateReturn
    \/ ProcessRequestFinish

Spec == Init /\ [][Next]_vars

\* the service behind its HTTP endpoint and the timeout layer
NextHttp ==
    \/ CallOrchestrate
    \/ ProcessRequestStart
    \/ BeginStep
    \/ AgentSucceeds
    \/ AgentFails
    \/ OrchestrateReturn
    \/ ProcessRequestFinish
    \/ HandlerReturns
    \/ DeadlineFires

SpecHttp == Init /\ [][NextHttp]_vars

\* concurrent calls of process_request, each running to completion
SpecConcurrent == Init /\ [][NextConcurrent]_vars

\* the name resolution alone, over names in every letter case
SpecResolve == Init /\ [][ResolveNames]_vars

\* the Input Mapper alone, over every agent type, request shape and prior output
SpecMapper == Init /\ [][MapInput]_vars

\* one call of GitHubApp::create_commit against a server that may fail any call
SpecCommit == Init /\ [][NextCommit]_vars

\* one call of any write method of GitHubApp against a server that may fail any call
SpecGitHub == Init /\ [][NextGitHub]_vars

\* a MockStreamCompletion read until it has ended
SpecStream == Init /\ [][NextStream]_vars

\* every step the run can take is eventually taken: an awaited agent returns
FairSpec == Spec /\ WF_vars(BeginStep) /\ WF_vars(AgentSucceeds \/ AgentFails)
                 /\ WF_vars(OrchestrateReturn) /\ WF_vars(ProcessRequestFinish)


-----------------------------------------------------------------------------
(* Properties *)

\* orchestrate has returned
Returned == suite_result # None

\* process_request has returned
ServiceReturned == svc_result # None

Max(S) == CHOOSE x \in S : \A y \in S : y <= x

\* the steps before step k whose execute_agent call returned Ok
OkBefore(k) == {j \in DOMAIN returns : j < k /\ returns[j]}

\* the response of the latest step before k that succeeded, if any
LastOutputBefore(k) ==
    IF OkBefore(k) = {} THEN None
    ELSE Some(AgentResponse(agent_sequence[Max(OkBefore(k))]))

\* C1: when orchestrate returns for a resolved sequence of length N, execution_order
\* has exactly N records and the i-th record carries the i-th agent type of the sequence,
\* whatever steps succeeded or failed.
C1_OneRecordPerStep ==
    Returned =>
        LET order == suite_result.val.execution_order
        IN  /\ Len(order) = Len(agent_sequence)
            /\ \A i \in DOMAIN order : order[i].agent_type = agent_sequence[i]

C1_Witness ==
    /\ Returned
    /\ Len(agent_sequence) >= 2
    /\ \E i, j \in DOMAIN returns : returns[i] /\ ~returns[j]

\* C2: the prior output handed to step k is the output of the latest step before k that
\* succeeded, or none; a failed step leaves the next step the prior output it was given.
C2_PriorOutputIsLastSuccess ==
    \A k \in DOMAIN calls :
        /\ calls[k].previous_output = LastOutputBefore(k)
        /\ (k > 1 /\ ~returns[k - 1]) => calls[k].previous_output = calls[k - 1].previous_output

C2_Witness ==
    \E k \in DOMAIN calls :
        /\ k > 2
        /\ ~returns[k - 1]
        /\ returns[k - 2]
        /\ calls[k].previous_output = Some(AgentResponse(agent_sequence[k - 2]))

\* C3: when orchestrate returns, final_result is the output of the last step that
\* succeeded, even if later steps failed, and None if none succeeded; it is never the
\* error output of a failed step.
C3_FinalResultIsLastSuccess ==
    Returned =>
        LET resp == suite_result.val
        IN  /\ resp.final_result = LastOutputBefore(Len(agent_sequence) + 1)
            /\ \A i \in DOMAIN resp.execution_order :
                  ~resp.execution_order[i].success =>
                      resp.final_result # Some(resp.execution_order[i].output)

C3_Witness ==
    /\ Returned
    /\ Len(returns) >= 2
    /\ ~returns[Len(returns)]
    /\ suite_result.val.final_result.some


\* the number of steps whose execute_agent call returned Ok
Successes == Cardinality({i \in DOMAIN returns : returns[i]})

\* C4: in the response of process_request, result is None when no step succeeded and
\* otherwise holds the output of the last step that succeeded.
C4_ServiceResultAbsentWithoutSuccess ==
    ServiceReturned =>
        LET resp == svc_result.val
        IN  IF Successes = 0 THEN resp.result = None
            ELSE resp.result = LastOutputBefore(Len(agent_sequence) + 1)

\* C5: a step failure never aborts the run: execute_agent is called exactly once for
\* every element of the resolved sequence, in order, with no retry and no skipping, and
\* a run whose agents all return ends with a response.
C5_EveryStepRunsOnceAndRunEnds ==
    (pc \in {"loop", "await"}) ~>
        (/\ Returned
         /\ Len(calls) = Len(agent_sequence)
         /\ \A i \in DOMAIN calls : calls[i].agent_type = agent_sequence[i]
         /\ Len(returns) = Len(calls)
         /\ Len(invoked) <= Len(calls))

C5_Witness ==
    /\ pc = "done"
    /\ Len(calls) = 3
    /\ ~returns[1]
    /\ returns[2]
    /\ ~returns[3]

\* C6: when every step of a run of N >= 1 steps fails, process_request still returns
\* Completed with metadata.success = TRUE, and the pipeline response has N records, all
\* with success = FALSE, and a success_rate of 0.
C6_AllFailedStillCompleted ==
    (ServiceReturned /\ Len(agent_sequence) >= 1 /\ Successes = 0) =>
        /\ svc_result.ok
        /\ svc_result.val.status = [tag |-> "Completed"]
        /\ svc_result.val.metadata.success
        /\ suite_result.ok
        /\ Len(suite_result.val.execution_order) = Len(agent_sequence)
        /\ \A i \in DOMAIN suite_result.val.execution_order :
              ~suite_result.val.execution_order[i].success
        /\ suite_result.val.metadata.success_rate = F32Zero

C6_Witness ==
    /\ ServiceReturned
    /\ Len(agent_sequence) = 3
    /\ Successes = 0
    /\ Len(invoked) >= 1

\* C7: whatever steps fail, orchestrate returns Ok and process_request returns Ok with a
\* Completed response; a failed step shows only as success = FALSE on its record and as
\* one warning.
C7_StepFailureNeverAnError ==
    /\ Returned =>
          /\ suite_result.ok
          /\ \A i \in DOMAIN returns :
                suite_result.val.execution_order[i].success = returns[i]
          /\ Len(suite_result.val.metadata.warnings) = Len(returns) - Successes
    /\ ServiceReturned =>
          /\ svc_result.ok
          /\ svc_result.val.status.tag = "Completed"
          /\ svc_result.val.metadata.error = None
          /\ svc_result.val.result.some

C7_Witness ==
    /\ ServiceReturned
    /\ Len(returns) >= 2
    /\ Successes >= 1
    /\ Successes < Len(returns)


Abs(x) == IF x < 0 THEN 0 - x ELSE x

\* the number of records of a response with success = TRUE
SuccessfulRecords(order) == Cardinality({i \in DOMAIN order : order[i].success})

\* C8 as stated: success_rate equals 100 * successes / N for N > 0 and 0 for N = 0,
\* and so lies in [0, 100].
C8_SuccessRateIsQuotient ==
    Returned =>
        LET order == suite_result.val.execution_order
            rate == suite_result.val.metadata.success_rate
        IN  /\ rate = IF Len(order) = 0 THEN F32Zero
                      ELSE F32DivInts(100 * SuccessfulRecords(order), Len(order))
            /\ F32Leq(rate, F32Hundred)

\* C8 amended: success_rate is 0 for N = 0 and for no success, 100 when every record
\* succeeded, lies in [0, 100] and is within 2^-16 of 100 * successes / N.
C8_SuccessRateWithinRounding ==
    Returned =>
        LET order == suite_result.val.execution_order
            rate == suite_result.val.metadata.success_rate
            c == SuccessfulRecords(order)
            n == Len(order)
        IN  /\ (n = 0 \/ c = 0) => rate = F32Zero
            /\ (n > 0 /\ c = n) => rate = F32Hundred
            /\ F32Leq(rate, F32Hundred)
            /\ c > 0 =>
                  /\ rate.m >= F32MantMin
                  /\ rate.m < F32MantMax
                  /\ rate.e <= -16
                  /\ Abs(rate.m * n - 100 * c * Pow2(0 - rate.e)) <= n * Pow2(0 - rate.e - 16)

C8_Witness ==
    /\ Returned
    /\ Len(returns) = 3
    /\ Successes = 1
    /\ suite_result.val.metadata.success_rate # F32DivInts(100, 3)

\* two characters that are the same letter in either case
SameLetter(c, d) ==
    \/ c = d
    \/ \E i \in DOMAIN UpperLetters : {c, d} = {UpperLetters[i], LowerLetters[i]}

\* two names that differ at most in letter case
CaseEq(a, b) == Len(a) = Len(b) /\ \A i \in DOMAIN a : SameLetter(a[i], b[i])

\* the names the service recognizes and the agent type of each
NameTable ==
    { <<name_spec, "Spec">>, <<name_code, "Code">>, <<name_test, "TestGenerator">>,
      <<name_test_generator, "TestGenerator">>, <<name_review, "Reviewer">>,
      <<name_reviewer, "Reviewer">>, <<name_debug, "Debug">> }

ExpectedType(name) ==
    IF \E p \in NameTable : CaseEq(name, p[1])
    THEN Some((CHOOSE p \in NameTable : CaseEq(name, p[1]))[2])
    ELSE None

\* C9: the sequence process_request resolves from a supplied name list holds exactly the
\* recognized names as agent types, in the order supplied and with duplicates kept; other
\* names are dropped and no error is raised.
C9_ResolvedKeepsRecognizedInOrder ==
    (entry = "service" /\ svc_request.agent_sequence.some) =>
        LET names == svc_request.agent_sequence.val
            seq == request.agent_sequence.val
            kept == {i \in DOMAIN names : ExpectedType(names[i]).some}
        IN  /\ Len(seq) = Cardinality(kept)
            /\ \A i \in kept :
                  seq[Cardinality({j \in kept : j <= i})] = ExpectedType(names[i]).val
            /\ agent_sequence = seq
            /\ ServiceReturned => svc_result.ok

C9_Witness ==
    /\ entry = "service"
    /\ svc_request.agent_sequence.some
    /\ Len(svc_request.agent_sequence.val) = 3
    /\ ~ExpectedType(svc_request.agent_sequence.val[2]).some
    /\ Len(request.agent_sequence.val) = 2
    /\ request.agent_sequence.val[1] # request.agent_sequence.val[2]
    /\ ServiceReturned

\* C10: name resolution ignores letter case: names that differ only in case resolve
\* alike, and spec, code, test or test_generator, review or reviewer, debug resolve to
\* Spec, Code, TestGenerator, Reviewer, Debug in any case.
C10_ResolutionIgnoresCase ==
    (pc = "resolved") =>
        LET names == svc_request.agent_sequence.val
        IN  /\ \A i, j \in DOMAIN names :
                  CaseEq(names[i], names[j]) => resolved_each[i] = resolved_each[j]
            /\ \A i \in DOMAIN names : resolved_each[i] = ExpectedType(names[i])

C10_Witness ==
    /\ pc = "resolved"
    /\ \E i, j \in DOMAIN resolved_each :
          /\ svc_request.agent_sequence.val[i] # svc_request.agent_sequence.val[j]
          /\ CaseEq(svc_request.agent_sequence.val[i], svc_request.agent_sequence.val[j])
          /\ resolved_each[i] = Some("TestGenerator")

\* the agent types execute_agent was called with, in call order
Executed == [i \in DOMAIN calls |-> calls[i].agent_type]

\* C11: a run submitted through process_request with an absent sequence, or one that
\* resolves to the empty sequence, executes Spec, Code, Reviewer, TestGenerator in order.
C11_ServiceDefaultsToFourStages ==
    (ServiceReturned /\ (~svc_request.agent_sequence.some \/ CollectSome(resolved_each) = <<>>)) =>
        /\ Executed = <<"Spec", "Code", "Reviewer", "TestGenerator">>
        /\ Len(suite_result.val.execution_order) = 4

\* C12: orchestrate called with agent_sequence = None executes Spec, Code, Reviewer,
\* TestGenerator in order (4 records); called with Some(sequence) it executes exactly
\* that sequence.
C12_DefaultOnlyWhenAbsent ==
    Returned =>
        LET expected == IF request.agent_sequence.some THEN request.agent_sequence.val
                        ELSE <<"Spec", "Code", "Reviewer", "TestGenerator">>
            order == suite_result.val.execution_order
        IN  /\ Executed = expected
            /\ [i \in DOMAIN order |-> order[i].agent_type] = expected

C12_Witness ==
    /\ Returned
    /\ entry = "suite"
    /\ ~request.agent_sequence.some
    /\ Len(suite_result.val.execution_order) = 4

RECURSIVE FailureWarnings(_)
\* "Agent {type} failed: {message}" for every failed record, in record order
FailureWarnings(order) ==
    IF order = <<>> THEN <<>>
    ELSE (IF Head(order).success THEN <<>>
          ELSE << <<"Agent", Head(order).agent_type, "failed:", Head(order).error_message.val>> >>)
         \o FailureWarnings(Tail(order))

\* C13: the warnings hold exactly one entry per failed step, "Agent {type} failed:
\* {message}" with that step's agent type and error message, in step order; a successful
\* step adds none, so there are as many warnings as records with success = FALSE.
C13_OneWarningPerFailedStep ==
    /\ warnings = FailureWarnings(executions)
    /\ Returned =>
          LET resp == suite_result.val
          IN  /\ resp.metadata.warnings = FailureWarnings(resp.execution_order)
              /\ Len(resp.metadata.warnings) =
                    Len(resp.execution_order) - SuccessfulRecords(resp.execution_order)

C13_Witness ==
    /\ Returned
    /\ Len(suite_result.val.metadata.warnings) = 2
    /\ Len(suite_result.val.execution_order) = 3
    /\ suite_result.val.execution_order[2].success
    /\ suite_result.val.metadata.warnings[1][2] # suite_result.val.metadata.warnings[2][2]

\* C14: in every step record success = FALSE exactly when error_message is present,
\* and then output is {error: message, agent: type} with error equal to error_message;
\* success = TRUE exactly when output is the agent's response and error_message is absent.
C14_RecordMatchesOutcome ==
    \A i \in DOMAIN executions :
        LET r == executions[i]
        IN  /\ ~r.success <=> r.error_message.some
            /\ ~r.success =>
                  r.output = [t |-> "object",
                              fields |-> [error |-> [t |-> "string", s |-> r.error_message.val],
                                          agent |-> [t |-> "string", s |-> r.agent_type]]]
            /\ r.success <=> (r.output = AgentResponse(r.agent_type) /\ ~r.error_message.some)
            /\ r.success = returns[i]

C14_Witness ==
    /\ Returned
    /\ \E i, j \in DOMAIN executions :
          /\ executions[i].success
          /\ ~executions[j].success
          /\ executions[j].error_message = Some(ProviderError)

\* C15: every step record, of a successful and of a failed step alike, carries as input
\* the payload prepare_agent_input built for that step.
C15_RecordInputIsMappedPayload ==
    \A i \in DOMAIN executions :
        executions[i].input =
            prepare_agent_input(executions[i].agent_type, request, calls[i].previous_output)

\* C19: the steps of a run are strictly sequential: execute_agent is called for the next
\* step only when every earlier call has returned and its record is pushed, and at most
\* one agent invocation is in flight at any time.
C19_StepsStrictlySequential ==
    /\ [](Len(calls) - Len(returns) \in {0, 1})
    /\ [](Len(calls) - Len(returns) = 1 <=> pc = "await")
    /\ [][Len(calls') > Len(calls) =>
            /\ pc = "loop"
            /\ Len(returns) = Len(calls)
            /\ Len(executions) = Len(calls)
            /\ calls'[Len(calls')].previous_output = previous_output]_vars

C19_Witness ==
    /\ pc = "await"
    /\ Len(calls) = 3
    /\ Len(executions) = 2
    /\ Len(invoked) = 3

\* C20: when the deadline fires while a run is suspended in a step, the caller observes
\* either a full response for the whole resolved sequence or a failure with no step
\* records; a response made from a prefix of the step records is never observed.
C20_DeadlineIsAllOrNothing ==
    /\ pc = "dropped" => http_response = Some([status |-> 408, body |-> None])
    /\ http_response.some =>
          \/ /\ http_response.val.status = 200
             /\ Len(executions) = Len(agent_sequence)
             /\ suite_result.ok
             /\ Len(suite_result.val.execution_order) = Len(agent_sequence)
             /\ http_response.val.body = Some(ServiceResponse(suite_result, agent_sequence))
          \/ /\ http_response.val.status # 200
             /\ ~http_response.val.body.some

C20_Witness ==
    /\ pc = "dropped"
    /\ http_response.some
    /\ Len(executions) >= 1
    /\ Len(executions) < Len(agent_sequence)

\* call r is between the increment of line 97 and the decrement of line 170
InRun(r) == runs[r].pc \in {"loop", "await", "lock_end", "locked_end"}

\* C16: under any interleaving of concurrent process_request calls that run to completion,
\* active_sessions is the number of calls past the increment and not yet past the
\* decrement; it never goes below 0 and is 0 once every call made has returned.
C16_ActiveSessionsCountsRunsInProgress ==
    /\ active_sessions = Cardinality({r \in Runs : InRun(r)})
    /\ active_sessions >= 0
    /\ (\A r \in Runs : runs[r].pc \in {"idle", "done"}) => active_sessions = 0

C16_Witness ==
    /\ active_sessions = 1
    /\ total_requests = 2
    /\ runs[1].pc = "done"
    /\ runs[2].pc = "await"
    /\ Len(runs[1].executions) >= 2

\* C17: a call inside agent_suite.orchestrate never owns the mutex, so the mutex is only
\* ever owned by a call inside one of the two critical sections, which hold no await.
C17_NoLockAcrossAgentAwait ==
    /\ \A r \in Runs : runs[r].pc \in {"loop", "await"} => lock # r
    /\ lock # 0 => runs[lock].pc \in {"locked_start", "locked_end"}

C17_Witness ==
    /\ runs[1].pc = "await"
    /\ lock = 2
    /\ runs[2].pc = "locked_end"

RECURSIVE RunAlone(_, _)
\* the locals of a call that runs by itself from L with the agent outcomes outs, up to
\* the first await without an outcome or to the end of the loop
RunAlone(L, outs) ==
    IF L.pc = "loop"
    THEN IF L.cursor = Len(L.agent_sequence) THEN RunReturn(L)
         ELSE RunAlone(RunBeginStep(L, L.previous_output), outs)
    ELSE IF L.pc = "await" /\ outs # <<>>
    THEN RunAlone(IF Head(outs)
                  THEN RunStepOk(L, AgentResponse(L.agent_sequence[L.cursor]))
                  ELSE RunStepErr(L, ProviderError),
                  Tail(outs))
    ELSE L

\* s is a prefix of t
IsPrefix(s, t) == Len(s) <= Len(t) /\ \A i \in DOMAIN s : s[i] = t[i]

\* C18: concurrent calls are isolated: under any interleaving, the step records, warnings,
\* prior output and final result of each call are those of the same request run alone
\* with the same agent outcomes.
C18_RunsAreIsolated ==
    \A r \in Runs :
        runs[r].pc \in {"loop", "await", "lock_end", "locked_end", "done"} =>
            LET L == runs[r]
                A == RunAlone(RunEntered(L.svc_request.val), L.outcomes)
            IN  IF L.pc = "loop"
                THEN /\ IsPrefix(L.executions, A.executions)
                     /\ IsPrefix(L.warnings, A.warnings)
                ELSE /\ L.executions = A.executions
                     /\ L.warnings = A.warnings
                     /\ L.previous_output = A.previous_output
                     /\ L.pending_input = A.pending_input
                     /\ L.suite_result = A.suite_result
                     /\ L.svc_result = A.svc_result

C18_Witness ==
    /\ runs[1].pc = "await"
    /\ runs[2].pc = "await"
    /\ Len(runs[1].executions) >= 1
    /\ Len(runs[2].executions) >= 1
    /\ runs[1].previous_output # runs[2].previous_output


\* C21: the Input Mapper is total: for every agent type, every request (context and
\* options absent or present) and every prior output (absent, or any value, also one
\* lacking "requirements" or "changes"), it returns a payload and never an error.
C21_MapperIsTotal ==
    mapped.some => (mapped.val.result.ok /\ mapped.val.result.val.t = "object")

C21_Witness ==
    /\ mapped.some
    /\ mapped.val.agent_type = "Reviewer"
    /\ mapped.val.previous_output = Some(JStr("text"))
    /\ mapped.val.result.ok

\* C22: the payload built for a Spec step and for a Debug step does not depend on the
\* prior output: for a fixed request it is the same whether the prior output is absent
\* or any value.
C22_SpecAndDebugIgnorePriorOutput ==
    (mapped.some /\ mapped.val.agent_type \in {"Spec", "Debug"}) =>
        \A prev \in PriorOutputs :
            prepare_agent_input(mapped.val.agent_type, mapped.val.request, prev)
                = mapped.val.result.val

C22_Witness ==
    /\ mapped.some
    /\ mapped.val.agent_type = "Spec"
    /\ mapped.val.previous_output = Some(SpecResponseJson)
    /\ mapped.val.request.options.some
    /\ mapped.val.result.val
          = prepare_agent_input("Spec", mapped.val.request, None)

\* the agent types whose payload is built from the prior output
ChainedTypes == {"Code", "Reviewer", "TestGenerator"}

\* the payload of a chained type when there is no prior output
FallbackPayload(agent_type, req) ==
    IF agent_type = "Code"
    THEN JObj([prompt |-> JStr(req.prompt), context |-> ContextJson(req)])
    ELSE JObj([prompt |-> JStr(req.prompt)])

\* C23: for Code, Reviewer and TestGenerator the mapper branches only on whether a prior
\* output exists: with one, requirements (and for Reviewer and TestGenerator code_changes,
\* from its "changes") are taken from it; with none, Code gets exactly {prompt, context}
\* and the other two exactly {prompt}.  So a step of these types receives the fallback
\* payload if and only if no earlier step of the run has succeeded.
C23_FallbackIffNoEarlierSuccess ==
    \A k \in DOMAIN calls :
        calls[k].agent_type \in ChainedTypes =>
            LET agent_type == calls[k].agent_type
                input == prepare_agent_input(agent_type, request, calls[k].previous_output)
            IN  /\ (input = FallbackPayload(agent_type, request)) <=> (OkBefore(k) = {})
                /\ OkBefore(k) # {} =>
                      LET prior == executions[Max(OkBefore(k))].output
                      IN  /\ Field(input, "requirements")
                                = OptToJson(Get(prior, "requirements"))
                          /\ agent_type # "Code" =>
                                Field(input, "code_changes") = OptToJson(Get(prior, "changes"))
                /\ \A prev \in PriorOutputs :
                      (prepare_agent_input(agent_type, request, prev)
                          = FallbackPayload(agent_type, request)) <=> ~prev.some

C23_Witness ==
    \E k \in DOMAIN calls :
        /\ k > 1
        /\ calls[k].agent_type = "Code"
        /\ calls[k].previous_output = Some(CodeStreamJson)
        /\ \E j \in DOMAIN calls : j < k /\ calls[j].agent_type = "Reviewer"
                                         /\ ~calls[j].previous_output.some

\* the agent registered for each AgentType
RegisteredAgent ==
    [Spec |-> "spec_agent", Code |-> "code_agent", TestGenerator |-> "test_generator",
     Reviewer |-> "reviewer", Debug |-> "debug_agent"]

\* a key only the response of the agent has
ProductKey ==
    [spec_agent |-> "user_stories", code_agent |-> "changes", test_generator |-> "tests",
     reviewer |-> "findings", debug_agent |-> "patch_suggestions"]

\* C24: dispatch is total and type-faithful: a step of each of the five agent types
\* invokes the agent registered for that type and no other, a successful step records
\* that agent's response, and no step fails because an agent is missing.
C24_DispatchIsTypeFaithful ==
    /\ Len(invoked) <= Len(calls)
    /\ \A i \in DOMAIN invoked : invoked[i] \in Agents
    /\ pc = "await" => invoked[Len(invoked)] = RegisteredAgent[CurrentAgent]
    /\ \A k \in DOMAIN executions :
          LET r == executions[k]
          IN  IF r.success
              THEN ProductKey[RegisteredAgent[r.agent_type]] \in DOMAIN r.output.fields
              ELSE r.error_message.val \in {DeserializeError, ProviderError}

C24_Witness ==
    /\ Returned
    /\ \E k \in DOMAIN executions :
          executions[k].agent_type = "Reviewer" /\ executions[k].success
    /\ \E k \in DOMAIN executions :
          executions[k].agent_type = "Spec" /\ executions[k].success


\* every model-client call of the run succeeded: no agent returned an error
NoProviderError ==
    \A k \in DOMAIN executions : executions[k].error_message # Some(ProviderError)

\* C25: in a run of sequence [Spec, Code] in which every model-client call succeeds,
\* both steps are recorded with success = true, success_rate is 100 and final_result is
\* Code's output: the payload built for Code from Spec's output is a valid Code request.
C25_SpecThenCodeBothSucceed ==
    (Returned /\ agent_sequence = <<"Spec", "Code">> /\ NoProviderError) =>
        LET resp == suite_result.val
        IN  /\ \A k \in DOMAIN resp.execution_order : resp.execution_order[k].success
            /\ resp.metadata.success_rate = F32Hundred
            /\ resp.final_result = Some(CodeStreamJson)

\* the positions of the calls of one kind in the log of create_commit
CallsOf(kind) == {i \in DOMAIN github.log : github.log[i].kind = kind}

\* the position of the n-th blob creation
NthBlob(n) ==
    CHOOSE i \in CallsOf("blob") : Cardinality({j \in CallsOf("blob") : j < i}) = n - 1

CallRank == [get_ref |-> 1, get_commit |-> 2, blob |-> 3, tree |-> 4, commit |-> 5]

\* C26: create_commit issues its writes in a fixed order: one blob creation per file
\* change, in change order, then a single tree creation referencing those blobs and the
\* base tree, then a single commit creation referencing that tree with the branch head as
\* parent; when a call of the chain fails no later call is issued and an error is returned
\* instead of a CreateCommitResponse.
C26_BlobsThenTreeThenCommit ==
    LET L == github.log
        changes == github.changes
    IN  /\ \A i, j \in DOMAIN L : i < j => CallRank[L[i].kind] <= CallRank[L[j].kind]
        /\ Cardinality(CallsOf("tree")) <= 1
        /\ Cardinality(CallsOf("commit")) <= 1
        /\ Cardinality(CallsOf("blob")) <= Len(changes)
        /\ \A n \in 1..Cardinality(CallsOf("blob")) : L[NthBlob(n)].body = changes[n]
        /\ \A t \in CallsOf("tree") :
              /\ Cardinality(CallsOf("blob")) = Len(changes)
              /\ DOMAIN L[t].body.tree = DOMAIN changes
              /\ \A n \in DOMAIN changes :
                    /\ L[t].body.tree[n].path = changes[n].path
                    /\ Some(L[t].body.tree[n].sha) = L[NthBlob(n)].sha
              /\ \A c \in CallsOf("get_commit") : Some(L[t].body.base_tree) = L[c].sha
        /\ \A c \in CallsOf("commit") :
              /\ \E t \in CallsOf("tree") : Some(L[c].body.tree) = L[t].sha
              /\ \E b \in CallsOf("get_ref") : L[c].body.parents = <<L[b].sha.val>>
        /\ \A i \in DOMAIN L :
              L[i].outcome # "ok" =>
                  (i = Len(L) /\ github.pc = "done" /\ ~github.result.ok)
        /\ (github.pc = "done" /\ github.result.ok) =>
              /\ \A i \in DOMAIN L : L[i].outcome = "ok"
              /\ \E c \in CallsOf("commit"), t \in CallsOf("tree") :
                    github.result.val = [commit_sha |-> L[c].sha.val,
                                         tree_sha |-> L[t].sha.val]

C26_Witness ==
    /\ github.pc = "done"
    /\ github.result.ok
    /\ Len(github.changes) = 2
    /\ github.changes[1] # github.changes[2]
    /\ Cardinality(CallsOf("blob")) = 2

\* C27: a run abandoned by the request timeout while it awaits a step still has its
\* increment of active_sessions undone: once the run has ended, completed or timed out,
\* active_sessions is back to 0.
C27_TimedOutRunIsUncounted ==
    (entry = "service" /\ pc \in {"done", "dropped"}) => active_sessions = 0

\* the calls that have passed the update of lines 97-99
PastStartUpdate ==
    {r \in Runs : runs[r].pc \notin {"idle", "lock_start", "locked_start"}}

CountersAgree ==
    /\ total_requests = Cardinality(PastStartUpdate)
    /\ active_sessions <= total_requests

\* C28: total_requests never decreases and, under any interleaving of concurrent calls,
\* equals the number of calls that have passed the start-of-run update; active_sessions
\* never exceeds total_requests.
C28_TotalRequestsCountsStartedRuns ==
    [][total_requests' >= total_requests /\ CountersAgree']_vars

C28_Witness ==
    /\ total_requests = 2
    /\ active_sessions = 1
    /\ \E r \in Runs : runs[r].pc = "done"

BadPayloadStep ==
    /\ Len(calls') = Len(calls) + 1
    /\ LET c == calls'[Len(calls')]
       IN  \/ c.agent_type \in {"Reviewer", "TestGenerator"} /\ ~c.previous_output.some
           \/ c.agent_type = "Debug"

\* C30: a mapped payload that cannot be converted into the agent's typed request is an
\* ordinary step failure: the agent is not invoked, a failed record and a warning are
\* produced, the prior output is unchanged and the run goes on with the next step.
C30_BadPayloadIsOrdinaryFailure ==
    [][BadPayloadStep =>
          LET agent_type == calls'[Len(calls')].agent_type
          IN  /\ invoked' = invoked
              /\ returns' = Append(returns, FALSE)
              /\ Len(executions') = Len(executions) + 1
              /\ executions'[Len(executions')].agent_type = agent_type
              /\ ~executions'[Len(executions')].success
              /\ executions'[Len(executions')].error_message = Some(DeserializeError)
              /\ warnings' = Append(warnings, <<"Agent", agent_type, "failed:", DeserializeError>>)
              /\ previous_output' = previous_output
              /\ suite_result' = None
              /\ pc' = "loop"
              /\ cursor' = cursor + 1]_vars

C30_Witness ==
    \E k \in DOMAIN calls :
        /\ calls[k].agent_type = "Reviewer"
        /\ ~calls[k].previous_output.some
        /\ Len(calls) > k
        /\ ~returns[k]
        /\ executions[k].error_message = Some(DeserializeError)
        /\ calls[k + 1].agent_type = "Code"
        /\ pc = "await"

\* C31: metadata.agents_executed equals the number of step records in execution_order,
\* which is the length of the resolved sequence: failed steps count as executed.
C31_AgentsExecutedCountsEveryRecord ==
    Returned =>
        LET resp == suite_result.val
        IN  /\ resp.metadata.agents_executed = Len(resp.execution_order)
            /\ resp.metadata.agents_executed = Len(agent_sequence)

C31_Witness ==
    /\ Returned
    /\ suite_result.val.metadata.agents_executed = 3
    /\ \E k \in DOMAIN executions : ~executions[k].success
    /\ \E k \in DOMAIN executions : executions[k].success

\* status and metadata of a response of process_request agree
StatusAgrees(resp, seq) ==
    /\ resp.status.tag \in {"Completed", "Failed"}
    /\ resp.status.tag = "Completed" <=> (resp.metadata.success /\ ~resp.metadata.error.some)
    /\ resp.status.tag = "Failed" <=>
          /\ ~resp.metadata.success
          /\ resp.metadata.error.some
          /\ ~resp.result.some
    /\ resp.status.tag = "Failed" => resp.metadata.error = Some(resp.status.msg)
    /\ Len(resp.metadata.agent_sequence) = Len(seq)
    /\ \A i \in DOMAIN seq : resp.metadata.agent_sequence[i] = seq[i]

\* C32: in every response of process_request status and metadata agree: Completed exactly
\* when metadata.success is true and metadata.error absent; Failed(msg) exactly when
\* metadata.success is false, metadata.error is msg and result is absent; Pending and
\* InProgress are never returned; metadata.agent_sequence lists the resolved agent types
\* in execution order in both cases.
C32_StatusAndMetadataAgree ==
    ServiceReturned =>
        /\ StatusAgrees(svc_result.val, Executed)
        /\ \A e \in {ProviderError, DeserializeError} :
              LET failed == ServiceResponse(Err(e), agent_sequence)
              IN  /\ StatusAgrees(failed, agent_sequence)
                  /\ failed.status = [tag |-> "Failed", msg |-> e]

C32_Witness ==
    /\ ServiceReturned
    /\ svc_result.val.status.tag = "Completed"
    /\ Len(svc_result.val.metadata.agent_sequence) = 2
    /\ \A k \in DOMAIN executions : ~executions[k].success

\* C33: orchestrate given Some of an empty sequence invokes no agent and returns an empty
\* execution_order, no warnings, success_rate 0, agents_executed 0 and no final_result.
C33_EmptySequenceRunsNothing ==
    (Returned /\ request.agent_sequence = Some(<<>>)) =>
        /\ calls = <<>>
        /\ invoked = <<>>
        /\ suite_result.ok
        /\ suite_result.val = [execution_order |-> <<>>,
                               final_result |-> None,
                               metadata |-> [agents_executed |-> 0,
                                             success_rate |-> F32Zero,
                                             warnings |-> <<>>]]

C33_Witness ==
    /\ Returned
    /\ entry = "suite"
    /\ request.agent_sequence = Some(<<>>)
    /\ suite_result.val.metadata.agents_executed = 0

\* every recorded input was built from the request as it is now
InputsBuiltFromRequest ==
    /\ \A k \in DOMAIN executions :
          executions[k].success =>
              executions[k].input
                  = prepare_agent_input(calls[k].agent_type, request, calls[k].previous_output)
    /\ pc = "await" =>
          pending_input
              = prepare_agent_input(CurrentAgent, request, calls[Len(calls)].previous_output)

\* C34: the request seen by the mapper is never changed by the run: prompt, context and
\* options used to build the input of step k are the same for every k, whatever earlier
\* steps returned; only the prior output varies between steps.
C34_RequestIsFrozenDuringRun ==
    [][(pc \in {"loop", "await"}) => (request' = request /\ InputsBuiltFromRequest')]_vars

C34_Witness ==
    /\ Len(calls) = 3
    /\ pc = "await"
    /\ request.options.some
    /\ returns[1]
    /\ ~returns[2]
    /\ calls[1].previous_output # calls[3].previous_output

\* C35: without an access token in the configuration, create_branch, create_commit and
\* create_pull_request each return an error before issuing any HTTP request.
C35_NoTokenNoRequest ==
    (github.op # "none" /\ ~github.has_token) =>
        /\ github.pc = "done"
        /\ github.result = Err(<<"Access token required">>)
        /\ github.log = <<>>

C35_Witness ==
    /\ github.op = "create_pull_request"
    /\ ~github.has_token
    /\ github.pc = "done"

\* the chunks next has returned so far, in order
Chunks ==
    LET some == SelectSeq(stream.returned, LAMBDA o : o.some)
    IN  [i \in DOMAIN some |-> some[i].val]

RECURSIVE Concat(_)
Concat(ss) == IF ss = <<>> THEN <<>> ELSE Head(ss) \o Concat(Tail(ss))

\* C36: for any content of length L, repeated calls of MockStreamCompletion::next yield
\* non-empty chunks of at most 10 units whose concatenation in order is the content, then
\* None on every later call; position never exceeds L and the stream ends after
\* ceil(L / 10) chunks.
C36_StreamYieldsContentInChunks ==
    stream.made =>
        LET L == Len(stream.content)
            ended == \E i \in DOMAIN stream.returned : ~stream.returned[i].some
        IN  /\ ~stream.panicked
            /\ \A i \in DOMAIN Chunks : Len(Chunks[i]) \in 1..chunk_size
            /\ Concat(Chunks) = SubSeq(stream.content, 1, stream.position)
            /\ stream.position <= L
            /\ \A i, j \in DOMAIN stream.returned :
                  (i < j /\ ~stream.returned[i].some) => ~stream.returned[j].some
            /\ ended => (stream.position = L
                         /\ Len(Chunks) = (L + chunk_size - 1) \div chunk_size)

====
